---- MODULE Spec2Model ----
(***************************************************************************)
(* A model of the ray tracer's scene-specialising canvas (raycanvas.js)    *)
(* and of the fragment shader it drives (raytracer.frag and its completed  *)
(* variant).                                                               *)
(*                                                                         *)
(* Conventions.  Generated GLSL text is a sequence of lines; a line is a   *)
(* record [fn, ref, mIdx, num]: fn names the statement, ref the symbol    *)
(* names it mentions (a vertex constant prefix_vID is the pair             *)
(* <<prefix index, ID>>) and num the numeric literals, each literal being  *)
(* the integer count of 10^-5 units that toFixed(5) prints.  Two texts are *)
(* byte-identical exactly when the two sequences are equal.                *)
(* A transform is the affine map x |-> s*x + d (uniform scale s and a      *)
(* translation d along x) written [s, d]; Mat4 gives its 16 entries.       *)
(***************************************************************************)
EXTENDS Integers, Sequences, FiniteSets, TLC

VARIABLES
    shader,         \* glcanvas.shader: [id, linked, src]
    fragmentShader, \* glcanvas.fragmentShader: id of the fragment shader object
    deletedShaders, \* fragment shader ids handed to gl.deleteShader
    alerts,         \* number of alert("Could not initialize raytracing shader")
    lastGood,       \* history: the last program that linked (id 0: none yet)
    nCompiles,      \* history: number of setupShaders calls so far
    scene,          \* glslcanvas.scene: 0 is null, else a scene of SceneIds
    materialsArr,   \* scene.materialsArr: [built, arr]
    matI,           \* material name -> its .i field (Undefined until indexed)
    lights,         \* scene.lights: [isNull, arr]
    meshPrefix,     \* mesh id -> index k of its prefix "m"+k (NoPrefix: none)
    meshIdx,        \* glcanvas.meshIdx
    camera,         \* glslcanvas.camera: "null" or "cam"
    movelr, moveud, movefb, \* walking flags
    orthographic,   \* glcanvas.orthographic
    wraps,          \* repaint wrappers stacked on every menu controller
    pending,        \* repaint callbacks queued by requestAnimFrame
    uniforms,       \* values bound to the locations of glcanvas.shader
    lastRepaint,    \* history: what the last repaint since the last compilation did
    hist,           \* history: [prevSrc, src, n, log]: the texts of the last two
                    \* updateScene calls, n (up to 2) calls since the scene was
                    \* loaded, and what the last call wrote with console.log
    shaded,         \* the last getPhongColor: [scene, color], the scene's lights
                    \* and the lights that contributed, in order
    trace,          \* one fragment's main(): [file, pc, depth, nIsect, hits, written,
                    \* beacon]
    isect,          \* the last call of a primitive routine: its world-space ray
                    \* (p0, v), its transform T and shape, the returned t, and the
                    \* out-parameter (p, n; wrote says whether p was written)
    hit,            \* the last run of the generated rayIntersectScene: [ran,
                    \* dists, t, test, mIdx]: what each emitted test returned,
                    \* the returned tMin and the test and material left in
                    \* the out-parameter
    shadow          \* one softShadow call: [pc, i, counter, samples, value]

canvasVars == <<shader, fragmentShader, deletedShaders, alerts, lastGood,
                nCompiles, scene, materialsArr, matI, lights, meshPrefix,
                meshIdx, camera, movelr, moveud, movefb, orthographic, wraps,
                pending, uniforms, lastRepaint, hist>>

pixelVars == <<shaded, trace, isect, hit, shadow>>

(***************************************************************************)
(* Bounds of the model.                                                    *)
(***************************************************************************)
MaxCompiles == 2
MaxPending == 2
MaxSceneLights == 11

(***************************************************************************)
(* Program constants.                                                      *)
(***************************************************************************)
MAX_LIGHTS == 10
MAX_MATERIALS == 10
Undefined == -1
NoPrefix == -1
NullMesh == 0

Min(a, b) == IF a < b THEN a ELSE b

Has(rec, f) == f \in DOMAIN rec

(***************************************************************************)
(* Number.prototype.toFixed(5) of the rational n/d (d > 0): the decimal    *)
(* with five fractional digits nearest to it, as a count of 10^-5 units.   *)
(***************************************************************************)
ToFixed(n, d) ==
    LET a == IF n < 0 THEN -n ELSE n
        q == (2 * a * 100000 + d) \div (2 * d)
    IN IF n < 0 THEN -q ELSE q

vec3ToGLSLStr(v) == <<ToFixed(v[1], 1), ToFixed(v[2], 1), ToFixed(v[3], 1)>>

(***************************************************************************)
(* glMatrix on the transforms [s, d].                                      *)
(***************************************************************************)
IdentityT == [s |-> 1, d |-> 0]

Mat4Mul(a, b) == [s |-> a.s * b.s, d |-> a.d + a.s * b.d]

\* The 16 column-major entries of the inverse of t, printed by matToGLSLStr.
MInvStr(t) ==
    LET i == ToFixed(1, t.s)
        o == ToFixed(0, 1)
    IN <<i, o, o, o,  o, i, o, o,  o, o, i, o,
         ToFixed(-t.d, t.s), o, o, ToFixed(1, 1)>>

\* The 9 entries of the normal matrix of t (inverse transpose of its linear part).
NStr(t) ==
    LET i == ToFixed(1, t.s)
        o == ToFixed(0, 1)
    IN <<i, o, o,  o, i, o,  o, o, i>>

(***************************************************************************)
(* Lines of generated text.  mIdx is the material index printed in a       *)
(* primitive call (Undefined prints "undefined"; other lines carry none).  *)
(***************************************************************************)
Line(fn, ref, mIdx, num) == [fn |-> fn, ref |-> ref, mIdx |-> mIdx, num |-> num]

CHECK_NEAREST_INTERSECTION_SRC == <<Line("if(tCurr < tMin)", <<>>, Undefined, <<>>)>>

DEFAULT_RAY_INTERSECT_SCENE_SRC == <<Line("return INF", <<>>, Undefined, <<>>)>>

Newline == <<Line("\n", <<>>, Undefined, <<>>)>>

(***************************************************************************)
(* The scenes the external loader can hand over.  Mesh objects 1 and 2     *)
(* are shared by reference between shapes and between scenes.              *)
(***************************************************************************)
MeshIds == {1, 2}

\* mesh.vertices[i].pos, i = 0 .. n-1 (element i+1 of the sequence)
MeshVertices(m) ==
    IF m = 1 THEN << <<0, 0, 0>>, <<1, 0, 0>>, <<1, 1, 0>>, <<0, 1, 0>> >>
             ELSE << <<0, 0, 0>>, <<2, 0, 0>>, <<0, 2, 0>> >>

\* mesh.faces[i].getVertices(), as the vertices' IDs
MeshFaces(m) ==
    IF m = 1 THEN << <<0, 1, 2, 3>> >>
             ELSE << <<0, 1, 2>> >>

MaterialNames == {"red", "blue", "m2", "m3", "m4", "m5", "m6", "m7", "m8", "m9",
                  "m10"}

LightA == [pos |-> 1, color |-> 1]
LightB == [pos |-> 2, color |-> 3]

SceneIds == {1, 2, 3}

\* the own properties of scene.materials, in enumeration order; scene 4
\* declares more than MAX_MATERIALS of them
SceneMaterials(sc) ==
    IF sc = 3 THEN <<"blue">>
    ELSE IF sc = 4 THEN <<"red", "blue", "m2", "m3", "m4", "m5", "m6", "m7", "m8",
                          "m9", "m10">>
    ELSE <<"red", "blue">>

SceneLights(sc) ==
    IF sc = 1 THEN [isNull |-> FALSE, arr |-> <<LightA, LightB>>]
    ELSE IF sc = 2 THEN [isNull |-> FALSE, arr |-> <<LightB>>]
    ELSE [isNull |-> TRUE, arr |-> <<>>]

SceneChildren(sc) ==
    IF sc = 1 THEN
      << [transform |-> [s |-> 1, d |-> 1],
          shapes |-> << [type |-> "sphere", material |-> "red", radius |-> 2],
                        [type |-> "mesh", material |-> "blue", mesh |-> 1] >>,
          children |-> << [transform |-> [s |-> 2, d |-> 3],
                           shapes |-> << [type |-> "box", material |-> "red",
                                          width |-> 2, center |-> <<0, 1, 0>>] >>] >>] >>
    ELSE IF sc = 4 THEN
      << [transform |-> IdentityT,
          shapes |-> << [type |-> "sphere", material |-> "m10"],
                        [type |-> "box", material |-> "m9"] >>,
          children |-> <<>>] >>
    ELSE IF sc = 2 THEN
      << [transform |-> IdentityT,
          shapes |-> << [type |-> "mesh", material |-> "red", mesh |-> 2],
                        [type |-> "mesh", material |-> "blue", mesh |-> 1],
                        [type |-> "mesh", material |-> "red", mesh |-> 1] >>,
          children |-> <<>>] >>
    ELSE
      << [transform |-> [s |-> 2, d |-> 0],
          shapes |-> << [type |-> "cylinder", material |-> "blue", height |-> 3],
                        [type |-> "sphere"],
                        [type |-> "mesh", material |-> "blue", mesh |-> NullMesh],
                        [type |-> "torus", material |-> "blue"] >>],
         [transform |-> [s |-> 1, d |-> -2],
          shapes |-> << [type |-> "cone", material |-> "blue", radius |-> 2] >>,
          children |-> <<>>] >>

(***************************************************************************)
(* updateSceneRec.  The traversal threads st = [str, meshIdx, prefix]:     *)
(* the text emitted so far, glcanvas.meshIdx and every mesh's prefix.      *)
(***************************************************************************)
Param(shape, f, default) == IF Has(shape, f) THEN shape[f] ELSE default

\* the text of one analytic primitive call (box, sphere, cylinder, cone)
PrimitiveCall(shape, mIdx, T) ==
    LET center == vec3ToGLSLStr(Param(shape, "center", <<0, 0, 0>>))
        radius == ToFixed(Param(shape, "radius", 1), 1)
        height == ToFixed(Param(shape, "height", 1), 1)
        width  == ToFixed(Param(shape, "width", 1), 1)
        length == ToFixed(Param(shape, "length", 1), 1)
        tail   == MInvStr(T) \o NStr(T)
    IN IF shape.type = "box" THEN
           <<Line("rayIntersectBox", <<>>, mIdx,
                  <<width, height, length>> \o center \o tail)>>
           \o CHECK_NEAREST_INTERSECTION_SRC
       ELSE IF shape.type = "sphere" THEN
           <<Line("rayIntersectSphere", <<>>, mIdx, center \o <<radius>> \o tail)>>
           \o CHECK_NEAREST_INTERSECTION_SRC
       ELSE IF shape.type = "cylinder" THEN
           <<Line("rayIntersectCylinder", <<>>, mIdx,
                  center \o <<radius, height>> \o tail)>>
           \o CHECK_NEAREST_INTERSECTION_SRC
       ELSE
           <<Line("rayIntersectCone", <<>>, mIdx,
                  center \o <<radius, height>> \o tail)>>
           \o CHECK_NEAREST_INTERSECTION_SRC

\* Step 1 of a mesh shape: "vec3 prefix_vi = vec3(...);" for every vertex
VertexDecls(m, prefix) ==
    [i \in 1..Len(MeshVertices(m)) |->
        Line("vec3", <<prefix, i - 1>>, Undefined, vec3ToGLSLStr(MeshVertices(m)[i]))]

\* a triangle strip of one face: (v(t), v(t+1), v(t+2))
FaceTrianglesStrip(verts, prefix, mIdx, T) ==
    LET n == Len(verts)
        Tri(t) == <<Line("rayIntersectTriangle",
                         <<prefix, verts[t + 1],
                           prefix, verts[((t + 1) % n) + 1],
                           prefix, verts[((t + 2) % n) + 1]>>,
                         mIdx, MInvStr(T) \o NStr(T))>>
                  \o CHECK_NEAREST_INTERSECTION_SRC
        F[t \in 0..n] == IF t >= n - 2 THEN <<>> ELSE Tri(t) \o F[t + 1]
    IN F[0]

\* the triangle fan of one face: t = 0 .. verts.length-3
FaceTriangles(verts, prefix, mIdx, T) ==
    LET n == Len(verts)
        Tri(t) == <<Line("rayIntersectTriangle",
                         <<prefix, verts[1],
                           prefix, verts[((t + 1) % n) + 1],
                           prefix, verts[((t + 2) % n) + 1]>>,
                         mIdx, MInvStr(T) \o NStr(T))>>
                  \o CHECK_NEAREST_INTERSECTION_SRC
        F[t \in 0..n] == IF t >= n - 2 THEN <<>> ELSE Tri(t) \o F[t + 1]
    IN F[0]

\* Step 2 of a mesh shape: every face of the mesh
MeshTriangles(m, prefix, mIdx, T) ==
    LET faces == MeshFaces(m)
        F[i \in 1..Len(faces) + 1] ==
            IF i > Len(faces) THEN <<>>
            ELSE FaceTriangles(faces[i], prefix, mIdx, T) \o F[i + 1]
    IN F[1]

\* whether the mesh gets a prefix now ("if (!('prefix' in mesh))")
NeedsPrefix(st, m) == st.prefix[m] = NoPrefix

MeshShape(shape, mIdx, T, st) ==
    LET m == shape.mesh
        fresh == NeedsPrefix(st, m)
        prefix == IF fresh THEN st.meshIdx ELSE st.prefix[m]
        decls == IF fresh THEN VertexDecls(m, prefix) ELSE <<>>
    IN [str |-> st.str \o decls \o MeshTriangles(m, prefix, mIdx, T),
        meshIdx |-> IF fresh THEN st.meshIdx + 1 ELSE st.meshIdx,
        prefix |-> IF fresh THEN [st.prefix EXCEPT ![m] = prefix] ELSE st.prefix]

\* the body of node.shapes.forEach
EmitShape(shape, T, mi, st) ==
    IF ~Has(shape, "material") THEN st
    ELSE LET mIdx == mi[shape.material]
         IN IF shape.type \in {"box", "sphere", "cylinder", "cone"}
            THEN [st EXCEPT !.str = @ \o PrimitiveCall(shape, mIdx, T)]
            ELSE IF shape.type = "mesh"
            THEN IF shape.mesh = NullMesh THEN st ELSE MeshShape(shape, mIdx, T, st)
            ELSE st

RECURSIVE EmitShapes(_, _, _, _, _)
EmitShapes(shapes, i, T, mi, st) ==
    IF i > Len(shapes) THEN st
    ELSE EmitShapes(shapes, i + 1, T, mi, EmitShape(shapes[i], T, mi, st))

\* a product with the node's own transform on the left
NextTransformLeafFirst(transform, node) == Mat4Mul(node.transform, transform)

\* the transform handed to a node's shapes and children
NextTransform(transform, node) == Mat4Mul(transform, node.transform)

RECURSIVE updateSceneRec(_, _, _, _)
RECURSIVE EmitChildren(_, _, _, _, _)
updateSceneRec(node, transform, mi, st) ==
    LET nextTransform == NextTransform(transform, node)
        own == EmitShapes(node.shapes, 1, nextTransform, mi, st)
    IN IF Has(node, "children")
       THEN EmitChildren(node.children, 1, nextTransform, mi, own)
       ELSE own

EmitChildren(children, i, T, mi, st) ==
    IF i > Len(children) THEN st
    ELSE LET sub == updateSceneRec(children[i], T, mi, st)
         IN EmitChildren(children, i + 1, T, mi, [sub EXCEPT !.str = @ \o Newline])

(***************************************************************************)
(* What updateSceneRec writes with console.log, in the order of the        *)
(* traversal: lines 250-252, 288 and 344-346.                              *)
(***************************************************************************)
ShapeLog(shape) ==
    IF ~Has(shape, "material") THEN <<"Error: Material not specified for node">>
    ELSE IF shape.type = "sphere" THEN <<"MInv">>
    ELSE IF shape.type = "mesh" /\ shape.mesh = NullMesh
    THEN <<"ERROR: No mesh specified for mesh shape. Not loading into shader">>
    ELSE <<>>

RECURSIVE ShapesLog(_, _)
ShapesLog(shapes, i) ==
    IF i > Len(shapes) THEN <<>> ELSE ShapeLog(shapes[i]) \o ShapesLog(shapes, i + 1)

RECURSIVE NodeLog(_)
RECURSIVE NodesLog(_, _)
NodeLog(node) ==
    ShapesLog(node.shapes, 1)
      \o (IF Has(node, "children") THEN NodesLog(node.children, 1) ELSE <<>>)

NodesLog(nodes, i) ==
    IF i > Len(nodes) THEN <<>> ELSE NodeLog(nodes[i]) \o NodesLog(nodes, i + 1)

SceneLog(sc) == NodesLog(SceneChildren(sc), 1)

(***************************************************************************)
(* updateScene, lines 401-411: the materials array and every material's i. *)
(***************************************************************************)
IndexMaterials(sc) ==
    LET names == SceneMaterials(sc)
    IN [n \in MaterialNames |->
          IF \E k \in 1..Len(names) : names[k] = n
          THEN (CHOOSE k \in 1..Len(names) : names[k] = n) - 1
          ELSE matI[n]]

\* the mesh counter updateScene starts its traversal from
MeshIdxStart == 0

(***************************************************************************)
(* updateScene, lines 436-448: the text of rayIntersectScene.              *)
(***************************************************************************)
SceneHeader == <<Line("float rayIntersectScene(Ray ray, out Intersection intersect) {",
                      <<>>, Undefined, <<>>),
                 Line("float tMin = INF", <<>>, Undefined, <<>>),
                 Line("Intersection intersectCurr", <<>>, Undefined, <<>>),
                 Line("float tCurr = INF", <<>>, Undefined, <<>>)>>

SceneFooter == <<Line("return tMin", <<>>, Undefined, <<>>)>>

CompileScene(sc, mi, prefix) ==
    LET st0 == [str |-> SceneHeader, meshIdx |-> MeshIdxStart, prefix |-> prefix]
        st1 == EmitChildren(SceneChildren(sc), 1, IdentityT, mi, st0)
    IN [st1 EXCEPT !.str = @ \o SceneFooter]

(***************************************************************************)
(* updateUniforms.  u is the uniform state of the active program; the      *)
(* result is [threw, calls, u]: whether a TypeError ended the call, how    *)
(* many gl.uniform* calls were issued, and the uniform state left behind.  *)
(* Locations of a program that did not link are null, and gl.uniform* on a *)
(* null location stores nothing.                                           *)
(***************************************************************************)
ZeroLight == [pos |-> 0, color |-> 0]

ZeroUniforms == [numLights |-> 0,
                 lights |-> [i \in 1..MAX_LIGHTS |-> ZeroLight],
                 numMaterials |-> 0,
                 materials |-> [i \in 1..MAX_MATERIALS |-> "unbound"]]

\* a binding that keeps the last numLights lights of the scene
LightForSlotFromEnd(arr, numLights, i) == arr[Len(arr) - numLights + i + 1]

\* lines 95-100: which scene light lands in slot i (0-based) of u_lights
LightForSlot(arr, numLights, i) == arr[i + 1]

BindLights(u, arr) ==
    LET numLights == Min(MAX_LIGHTS, Len(arr))
    IN [u EXCEPT !.numLights = numLights,
                 !.lights = [i \in 1..MAX_LIGHTS |->
                               IF i <= numLights
                               THEN LightForSlot(arr, numLights, i - 1)
                               ELSE u.lights[i]]]

BindMaterials(u, arr) ==
    LET numMaterials == Min(MAX_MATERIALS, Len(arr))
    IN [u EXCEPT !.numMaterials = numMaterials,
                 !.materials = [i \in 1..MAX_MATERIALS |->
                                  IF i <= numMaterials THEN arr[i] ELSE u.materials[i]]]

updateUniforms(u, linked, cam, sc, lts, mats) ==
    LET camCalls == IF cam = "null" THEN 0 ELSE 5
        ltCalls  == IF sc = 0 \/ lts.isNull THEN 0
                    ELSE 1 + 2 * Min(MAX_LIGHTS, Len(lts.arr))
        threw    == sc # 0 /\ ~mats.built
        matCalls == IF sc = 0 \/ threw THEN 0
                    ELSE 1 + 5 * Min(MAX_MATERIALS, Len(mats.arr))
        u1 == IF sc = 0 \/ lts.isNull \/ ~linked THEN u ELSE BindLights(u, lts.arr)
        u2 == IF sc = 0 \/ threw \/ ~linked THEN u1 ELSE BindMaterials(u1, mats.arr)
    IN [threw |-> threw, calls |-> 5 + camCalls + ltCalls + matCalls, u |-> u2]

(***************************************************************************)
(* setupShaders(src) with the link outcome linkOk the GL reports.          *)
(***************************************************************************)
NoProgram == [id |-> 0, linked |-> FALSE, src |-> <<>>]

\* lines 175-177: the program glcanvas.shader names after the call
ProgramAfterSetup(old, new, linkOk) == new

setupShaders(src, linkOk) ==
    LET new == [id |-> nCompiles + 1, linked |-> linkOk, src |-> src]
    IN /\ deletedShaders' = IF fragmentShader = 0 THEN deletedShaders
                            ELSE deletedShaders \cup {fragmentShader}
       /\ fragmentShader' = new.id
       /\ shader' = ProgramAfterSetup(shader, new, linkOk)
       /\ alerts' = IF linkOk THEN alerts ELSE alerts + 1
       /\ lastGood' = IF linkOk THEN new ELSE lastGood
       /\ nCompiles' = nCompiles + 1
       /\ uniforms' = ZeroUniforms

(***************************************************************************)
(* History kept for the properties.                                        *)
(***************************************************************************)
NoRepaint == [ran |-> FALSE, program |-> 0, drew |-> FALSE,
              moving |-> FALSE, requested |-> 0, threw |-> FALSE]

(***************************************************************************)
(* The state after RayCanvas(glcanvas, glslcanvas) has run: setupShaders() *)
(* compiled the default source once, and the link may have failed.         *)
(***************************************************************************)
CanvasInit ==
    /\ \E linkOk \in BOOLEAN :
          /\ shader = [id |-> 1, linked |-> linkOk, src |-> DEFAULT_RAY_INTERSECT_SCENE_SRC]
          /\ alerts = IF linkOk THEN 0 ELSE 1
          /\ lastGood = IF linkOk THEN shader ELSE NoProgram
    /\ fragmentShader = 1
    /\ deletedShaders = {}
    /\ nCompiles = 1
    /\ scene = 0
    /\ materialsArr = [built |-> FALSE, arr |-> <<>>]
    /\ matI = [n \in MaterialNames |-> Undefined]
    /\ lights = [isNull |-> TRUE, arr |-> <<>>]
    /\ meshPrefix = [m \in MeshIds |-> NoPrefix]
    /\ meshIdx = 0
    /\ camera \in {"null", "cam"}
    /\ movelr = 0 /\ moveud = 0 /\ movefb = 0
    /\ orthographic = FALSE
    /\ wraps = 0
    /\ pending = 0
    /\ uniforms = ZeroUniforms
    /\ lastRepaint = NoRepaint
    /\ hist = [prevSrc |-> <<>>, src |-> <<>>, n |-> 0, log |-> <<>>]

(***************************************************************************)
(* The external collaborators: the scene loader, the camera owner and the  *)
(* key handlers of BaseCanvas.                                             *)
(***************************************************************************)
LoadSceneFrom(scenes, freshness) ==
    \E sc \in scenes, fresh \in freshness :
       /\ scene' = sc
       /\ materialsArr' = [built |-> FALSE, arr |-> <<>>]
       /\ matI' = [n \in MaterialNames |-> Undefined]
       /\ lights' = SceneLights(sc)
       /\ meshPrefix' = IF fresh THEN [m \in MeshIds |-> NoPrefix] ELSE meshPrefix
       /\ hist' = [hist EXCEPT !.n = 0]
       /\ UNCHANGED <<shader, fragmentShader, deletedShaders, alerts, lastGood,
                      nCompiles, meshIdx, camera, movelr, moveud, movefb,
                      orthographic, wraps, pending, uniforms, lastRepaint>>

\* any scene; its meshes are new objects (fresh) or the ones loaded before
LoadScene == LoadSceneFrom(SceneIds, BOOLEAN)

SetCamera ==
    /\ camera' = IF camera = "null" THEN "cam" ELSE "null"
    /\ UNCHANGED <<hist, shader, fragmentShader, deletedShaders, alerts, lastGood,
                   nCompiles, scene, materialsArr, matI, lights, meshPrefix,
                   meshIdx, movelr, moveud, movefb, orthographic, wraps,
                   pending, uniforms, lastRepaint>>

KeyEvent ==
    \E lr \in {0, 1}, ud \in {0, 1}, fb \in {0, -1}, req \in {0, 1} :
       /\ <<lr, ud, fb>> # <<movelr, moveud, movefb>>
       /\ pending + req <= MaxPending
       /\ movelr' = lr /\ moveud' = ud /\ movefb' = fb
       /\ pending' = pending + req
       /\ UNCHANGED <<hist, shader, fragmentShader, deletedShaders, alerts, lastGood,
                      nCompiles, scene, materialsArr, matI, lights, meshPrefix,
                      meshIdx, camera, orthographic, wraps, uniforms, lastRepaint>>

(***************************************************************************)
(* glcanvas.updateScene.                                                   *)
(***************************************************************************)
updateSceneWithin(budget) ==
    /\ nCompiles < budget + 1
    /\ IF scene = 0
       THEN /\ hist' = [hist EXCEPT !.log = <<"Warning: scene is null">>]
            /\ UNCHANGED <<shader, fragmentShader, deletedShaders, alerts,
                           lastGood, nCompiles, materialsArr, matI, meshPrefix,
                           meshIdx, wraps, uniforms, lastRepaint>>
       ELSE \E linkOk \in BOOLEAN :
            LET mi == IndexMaterials(scene)
                out == CompileScene(scene, mi, meshPrefix)
            IN /\ materialsArr' = [built |-> TRUE, arr |-> SceneMaterials(scene)]
               /\ matI' = mi
               /\ wraps' = wraps + 1
               /\ meshIdx' = out.meshIdx
               /\ meshPrefix' = out.prefix
               /\ setupShaders(out.str, linkOk)
               /\ lastRepaint' = NoRepaint
               /\ hist' = [prevSrc |-> hist.src, src |-> out.str,
                           n |-> Min(2, hist.n + 1), log |-> SceneLog(scene)]
    /\ UNCHANGED <<scene, lights, camera, movelr, moveud, movefb, orthographic,
                   pending>>

updateScene == updateSceneWithin(MaxCompiles)

(***************************************************************************)
(* glcanvas.repaint, run by the browser for one queued request.            *)
(***************************************************************************)
Moving == movelr # 0 \/ moveud # 0 \/ movefb # 0

\* lines 466-472: the repaints a repaint that got this far requests
RepaintRequests(moving) == IF moving THEN 1 ELSE 0

repaint ==
    /\ pending > 0
    /\ LET uu == updateUniforms(uniforms, shader.linked, camera, scene,
                                lights, materialsArr)
           drew == ~uu.threw
           threwWalking == drew /\ Moving /\ camera = "null"
           req == IF drew /\ ~threwWalking THEN RepaintRequests(Moving) ELSE 0
       IN /\ uniforms' = uu.u
          /\ pending' = pending - 1 + req
          /\ lastRepaint' = [ran |-> TRUE, program |-> shader.id, drew |-> drew,
                             moving |-> Moving, requested |-> req,
                             threw |-> uu.threw \/ threwWalking]
    /\ UNCHANGED <<hist, shader, fragmentShader, deletedShaders, alerts, lastGood,
                   nCompiles, scene, materialsArr, matI, lights, meshPrefix,
                   meshIdx, camera, movelr, moveud, movefb, orthographic, wraps>>

(***************************************************************************)
(* glcanvas.clickerDraggedSync: a mouse or touch move.                     *)
(***************************************************************************)
clickerDraggedSync ==
    \E dragging \in BOOLEAN :
       LET req == IF camera # "null" /\ dragging THEN 1 ELSE 0
       IN /\ pending + req <= MaxPending
          /\ pending' = pending + req
          /\ UNCHANGED <<hist, shader, fragmentShader, deletedShaders, alerts, lastGood,
                         nCompiles, scene, materialsArr, matI, lights, meshPrefix,
                         meshIdx, camera, movelr, moveud, movefb, orthographic,
                         wraps, uniforms, lastRepaint>>

(***************************************************************************)
(* The 'orthographic' checkbox of the ray tracing menu, lines 503-506.     *)
(***************************************************************************)
\* a checkbox handler that recompiles before it requests the repaint
orthographicChangeRecompiling ==
    /\ pending + 1 <= MaxPending
    /\ orthographic' = ~orthographic
    /\ pending' = pending + 1
    /\ setupShaders(shader.src, TRUE)
    /\ UNCHANGED <<hist, scene, materialsArr, matI, lights, meshPrefix,
                   meshIdx, camera, movelr, moveud, movefb, wraps, lastRepaint>>

orthographicChange ==
    /\ pending + 1 <= MaxPending
    /\ orthographic' = ~orthographic
    /\ pending' = pending + 1
    /\ UNCHANGED <<hist, shader, fragmentShader, deletedShaders, alerts, lastGood,
                   nCompiles, scene, materialsArr, matI, lights, meshPrefix,
                   meshIdx, camera, movelr, moveud, movefb, wraps, uniforms,
                   lastRepaint>>

(***************************************************************************)
(* A value change of a light, camera or material menu controller: the      *)
(* handlers installed by updateScene, lines 424-429, run innermost first.  *)
(***************************************************************************)
\* the handler updateScene installed k-th, called with glcanvas.active =
\* active: it calls the handler it replaced (the controller's own one for
\* k = 0) and then requests a repaint; the result counts the calls of the
\* controller's own handler and the requests
RECURSIVE HandlerChain(_, _)
HandlerChain(k, active) ==
    IF k = 0 THEN [handled |-> 1, requested |-> 0]
    ELSE LET otherHandler == HandlerChain(k - 1, active)
         IN [handled |-> otherHandler.handled,
             requested |-> otherHandler.requested + IF active THEN 1 ELSE 0]

menuChangeOn(active) ==
    LET req == HandlerChain(wraps, active).requested
    IN /\ wraps > 0
       /\ pending + req <= MaxPending
       /\ pending' = pending + req
       /\ UNCHANGED <<hist, shader, fragmentShader, deletedShaders, alerts, lastGood,
                      nCompiles, scene, materialsArr, matI, lights, meshPrefix,
                      meshIdx, camera, movelr, moveud, movefb, orthographic,
                      wraps, uniforms, lastRepaint>>

menuChange == \E active \in BOOLEAN : menuChangeOn(active)

(***************************************************************************)
(* getMaterial, lines 473-481: the material main() shades a hit with; a    *)
(* struct no iteration assigns stays uninitialised.                        *)
(***************************************************************************)
getMaterial(u, mIdx) ==
    LET F[i \in 0..MAX_MATERIALS] ==
          IF i = 0 THEN "uninitialised"
          ELSE IF i - 1 = mIdx THEN u.materials[i] ELSE F[i - 1]
    IN F[MAX_MATERIALS]

(***************************************************************************)
(* getPhongColor, lines 573-616: the lights whose terms are added to the   *)
(* colour, in order.  The colour is a function of this sequence (and of    *)
(* the hit and the material, which the light count does not touch).        *)
(***************************************************************************)
getPhongColor(u) ==
    LET F[i \in 0..MAX_LIGHTS] ==
          IF i < MAX_LIGHTS /\ i < u.numLights
          THEN <<u.lights[i + 1]>> \o F[i + 1]
          ELSE <<>>
    IN F[0]

\* lines 582-601 and 603-616: the fields of lights[i] and of the material m
\* that getPhongColor reads
LightFieldsRead == {"pos", "color", "atten", "towards", "angle"}

MaterialFieldsRead == {"kd", "ks", "shininess"}

\* raycanvas.js lines 98-99 and 108-112: the fields updateUniforms hands to
\* gl.uniform* for every light and material in range; a uniform no call
\* names keeps the value the link gave it
LightFieldsBound == DOMAIN ZeroLight

MaterialFieldsBound == {"kd", "ks", "ka", "shininess", "refraction"}

(***************************************************************************)
(* The primitive routines of the shader, lines 92-438.  Coordinates are    *)
(* integers and distances are exact fractions <<numerator, denominator>>   *)
(* with a positive denominator.                                            *)
(***************************************************************************)
Abs(x) == IF x < 0 THEN -x ELSE x

RECURSIVE GCD(_, _)
GCD(a, b) == IF b = 0 THEN a ELSE GCD(b, a % b)

\* the quotient n / d of two floats, d # 0
Rat(n, d) ==
    LET g == GCD(Abs(n), Abs(d))
        sg == IF d < 0 THEN -1 ELSE 1
    IN <<(sg * n) \div g, (sg * d) \div g>>

\* #define INF 1.0e+12: above every distance the routines compute here
INF == <<1, 0>>

IsINF(t) == t[2] = 0

\* a < b on distances
RLt(a, b) == a[1] * b[2] < b[1] * a[2]

\* t > 0.0 and t >= 0.0
RPos(t) == t[1] > 0
RGeZero(t) == t[1] >= 0

Zero3 == <<0, 0, 0>>

Dot(a, b) == a[1] * b[1] + a[2] * b[2] + a[3] * b[3]

Cross(a, b) == <<a[2] * b[3] - a[3] * b[2],
                 a[3] * b[1] - a[1] * b[3],
                 a[1] * b[2] - a[2] * b[1]>>

VSub(a, b) == <<a[1] - b[1], a[2] - b[2], a[3] - b[3]>>

VAdd(a, b) == <<a[1] + b[1], a[2] + b[2], a[3] + b[3]>>

VScale(k, a) == <<k * a[1], k * a[2], k * a[3]>>

\* the point p0 + t*v as [n, d]: numerators over the denominator of t
PointAt(p0, v, t) == [n |-> VAdd(VScale(t[2], p0), VScale(t[1], v)), d |-> t[2]]

\* an out-parameter that was not written
Unwritten == [n |-> Zero3, d |-> 0]

\* MInv of an instance: a uniform scale k followed by a translation d
\* (the inverse of "translate by -d/k, scale by 1/k")
MInvPoint(T, p) == VAdd(VScale(T.k, p), T.d)

MInvDir(T, v) == VScale(T.k, v)

\* N, the normal matrix of M: the transpose of MInv's linear part
NormalDir(T, n) == VScale(T.k, n)

\* lines 145-151 (208-214, 276-282): the ray in the shape's coordinates
LocalRay(ray, T) == [p0 |-> MInvPoint(T, ray.p0), v |-> MInvDir(T, ray.v)]

MissResult == [t |-> INF, p |-> Unwritten, n |-> Zero3, wrote |-> FALSE, defined |-> TRUE]

HitResult(t, p, n) == [t |-> t, p |-> p, n |-> n, wrote |-> TRUE, defined |-> TRUE]

\* the routine accepting a plane at t = 0
rayIntersectPlaneFromZero(ray, n, p) ==
    LET denom == Dot(ray.v, n)
    IN IF Abs(denom) > 0
       THEN LET num == Dot(VSub(p, ray.p0), n)
                t == Rat(num, denom)
            IN IF RGeZero(t)
               THEN HitResult(t, PointAt(ray.p0, ray.v, t), n)
               ELSE MissResult
       ELSE MissResult

\* lines 92-110
rayIntersectPlane(ray, n, p) ==
    LET denom == Dot(ray.v, n)
    IN IF Abs(denom) > 0
       THEN LET num == Dot(VSub(p, ray.p0), n)
                t == Rat(num, denom)
            IN IF RPos(t)
               THEN HitResult(t, PointAt(ray.p0, ray.v, t), n)
               ELSE MissResult
       ELSE MissResult

\* lines 112-116, for a triangle in the plane of normal cr and corners given
\* as numerators over d: length(cross(ab, ac)) times d*d*length(cr)
getTriangleArea(a, b, c, cr) == Abs(Dot(Cross(VSub(b, a), VSub(c, a)), cr))

\* the outcomes of a quotient whose divisor is zero, which GLSL leaves open:
\* the value q and what the comparisons on values derived from it give
UnspecifiedQuotients ==
    {[q |-> q, inside |-> b] : q \in {<<-1, 1>>, <<0, 1>>, <<1, 1>>}, b \in BOOLEAN}

\* line 171: alpha + beta + gamma == 1.0 || alpha + beta + gamma < 1.01,
\* for the point p = [n, d] of the triangle's plane
AreaTest(a, b, c, cr, p) ==
    LET d == p.d
        sa == VScale(d, a)
        sb == VScale(d, b)
        sc == VScale(d, c)
        ABCarea == d * d * Dot(cr, cr)
        alpha == getTriangleArea(sc, p.n, sb, cr)
        beta == getTriangleArea(sa, p.n, sc, cr)
        gamma == getTriangleArea(sa, sb, p.n, cr)
    IN \/ alpha + beta + gamma = ABCarea
       \/ 100 * (alpha + beta + gamma) < 101 * ABCarea

\* lines 133-180; u is what the division of line 157 gives when the ray is
\* parallel to the triangle's plane
rayIntersectTriangle(ray, a, b, c, T, u) ==
    LET local == LocalRay(ray, T)
        ab == VSub(b, a)
        ac == VSub(c, a)
        cr == Cross(ab, ac)
        n == NormalDir(T, cr)
        num == Dot(VSub(a, local.p0), n)
        den == Dot(local.v, n)
        t == IF den = 0 THEN u.q ELSE Rat(num, den)
        p == PointAt(local.p0, local.v, t)
        inside == IF den = 0 THEN u.inside ELSE AreaTest(a, b, c, cr, p)
    IN IF RGeZero(t)
       THEN [t |-> IF inside THEN t ELSE INF, p |-> p, n |-> n,
             wrote |-> TRUE, defined |-> den # 0]
       ELSE [MissResult EXCEPT !.defined = den # 0]

IsSquare(x) == \E r \in 0..x : r * r = x

Sqrt(x) == CHOOSE r \in 0..x : r * r = x

\* the routine taking the far root of the quadratic before the near one
rayIntersectSphereFarRoot(ray, c, r, T, u) ==
    LET local == LocalRay(ray, T)
        cp == VSub(local.p0, c)
        A == Dot(local.v, local.v)
        B == 2 * Dot(cp, local.v)
        C == Dot(cp, cp) - r * r
        disc == B * B - 4 * A * C
        t2 == IF A = 0 THEN u.q ELSE Rat(-B + Sqrt(disc), 2 * A)
        normalAt(t) == NormalDir(T, VSub(PointAt(local.p0, local.v, t).n,
                                         VScale(t[2], c)))
        res == IF disc >= 0 /\ RPos(t2)
               THEN HitResult(t2, PointAt(ray.p0, ray.v, t2), normalAt(t2))
               ELSE MissResult
    IN [res EXCEPT !.defined = A # 0]

\* the routine without the branch for a ray that starts inside the sphere
rayIntersectSphereNearOnly(ray, c, r, T, u) ==
    LET local == LocalRay(ray, T)
        cp == VSub(local.p0, c)
        A == Dot(local.v, local.v)
        B == 2 * Dot(cp, local.v)
        C == Dot(cp, cp) - r * r
        disc == B * B - 4 * A * C
        t1 == IF A = 0 THEN u.q ELSE Rat(-B - Sqrt(disc), 2 * A)
        normalAt(t) == NormalDir(T, VSub(PointAt(local.p0, local.v, t).n,
                                         VScale(t[2], c)))
        res == IF disc >= 0 /\ RPos(t1)
               THEN HitResult(t1, PointAt(ray.p0, ray.v, t1), normalAt(t1))
               ELSE MissResult
    IN [res EXCEPT !.defined = A # 0]

\* lines 196-243, for a discriminant that is negative or a perfect square;
\* u is what the divisions of lines 223-224 give for a zero direction
rayIntersectSphere(ray, c, r, T, u) ==
    LET local == LocalRay(ray, T)
        cp == VSub(local.p0, c)
        A == Dot(local.v, local.v)
        B == 2 * Dot(cp, local.v)
        C == Dot(cp, cp) - r * r
        disc == B * B - 4 * A * C
        t1 == IF A = 0 THEN u.q ELSE Rat(-B - Sqrt(disc), 2 * A)
        t2 == IF A = 0 THEN u.q ELSE Rat(-B + Sqrt(disc), 2 * A)
        normalAt(t) == NormalDir(T, VSub(PointAt(local.p0, local.v, t).n,
                                         VScale(t[2], c)))
        res == IF disc >= 0
               THEN IF RPos(t1)
                    THEN HitResult(t1, PointAt(ray.p0, ray.v, t1), normalAt(t1))
                    ELSE IF RPos(t2)
                         THEN HitResult(t2, PointAt(ray.p0, ray.v, t2), normalAt(t2))
                         ELSE MissResult
               ELSE MissResult
    IN [res EXCEPT !.defined = A # 0]

\* lines 285-326: face i of the box (1..6): its plane's normal and point and
\* the two axes on which the hit must lie within the extent
BoxFace(i, c, dims) ==
    LET axis == (i + 1) \div 2
        half == dims[axis] \div 2
        bound == IF i % 2 = 1 THEN c[axis] + half ELSE c[axis] - half
    IN [n |-> [k \in 1..3 |-> IF k = axis THEN 1 ELSE 0],
        p |-> [c EXCEPT ![axis] = bound],
        others |-> (1..3) \ {axis}]

\* lines 332, 341, 349, 357, 365, 373: min < p < max on the other two axes
WithinFace(p, face, c, dims) ==
    \A k \in face.others :
        /\ (c[k] - dims[k] \div 2) * p.d < p.n[k]
        /\ p.n[k] < (c[k] + dims[k] \div 2) * p.d

\* the routine without the tests of the extent
rayIntersectBoxUnbounded(ray, dims, c, T) ==
    LET local == LocalRay(ray, T)
        F[i \in 0..6] ==
          IF i = 0 THEN [MissResult EXCEPT !.n = Zero3]
          ELSE LET face == BoxFace(i, c, dims)
                   h == rayIntersectPlane(local, face.n, face.p)
               IN IF RLt(h.t, F[i - 1].t) /\ RGeZero(h.t)
                  THEN HitResult(h.t, PointAt(ray.p0, ray.v, h.t),
                                 NormalDir(T, h.n))
                  ELSE F[i - 1]
    IN F[6]

\* lines 264-384, for even W, H and L
rayIntersectBox(ray, dims, c, T) ==
    LET local == LocalRay(ray, T)
        F[i \in 0..6] ==
          IF i = 0 THEN [MissResult EXCEPT !.n = Zero3]
          ELSE LET face == BoxFace(i, c, dims)
                   h == rayIntersectPlane(local, face.n, face.p)
               IN IF RLt(h.t, F[i - 1].t) /\ RGeZero(h.t)
                     /\ WithinFace(h.p, face, c, dims)
                  THEN HitResult(h.t, PointAt(ray.p0, ray.v, h.t),
                                 NormalDir(T, h.n))
                  ELSE F[i - 1]
    IN F[6]

\* lines 401-411 and 428-438
rayIntersectCylinder(ray, c, r, h, T) ==
    [t |-> INF, p |-> [n |-> Zero3, d |-> 1], n |-> Zero3, wrote |-> TRUE,
     defined |-> TRUE]

rayIntersectCone(ray, c, r, h, T) ==
    [t |-> INF, p |-> [n |-> Zero3, d |-> 1], n |-> Zero3, wrote |-> TRUE,
     defined |-> TRUE]

(***************************************************************************)
(* The rays, transforms and shapes the routines are called with.           *)
(***************************************************************************)
GeoOrigins == {<<0, 0, 0>>, <<0, 0, 2>>, <<0, 0, 5>>, <<1, 0, 2>>,
               <<0, 0, -2>>, <<3, 0, 0>>, <<0, 0, 1>>}

GeoDirs == {<<0, 0, -1>>, <<0, 0, 1>>, <<1, 0, 0>>, <<0, 0, 0>>,
            <<-1, 0, -2>>, <<0, 1, -2>>}

GeoRays == {[p0 |-> o, v |-> v] : o \in GeoOrigins, v \in GeoDirs}

\* identity; M = translation by (1, 0, 0); M = uniform scale by 1/2
GeoTransforms == {[k |-> 1, d |-> Zero3], [k |-> 1, d |-> <<-1, 0, 0>>],
                  [k |-> 2, d |-> Zero3]}

NoShape == [a |-> Zero3, b |-> Zero3, c |-> Zero3, r |-> 0, dims |-> Zero3]

GeoPlanes == {[NoShape EXCEPT !.a = n, !.c = p] :
                n \in {<<0, 0, 1>>, <<0, 1, 0>>, <<1, 0, 1>>},
                p \in {Zero3, <<0, 0, 1>>}}

GeoTriangles == {[NoShape EXCEPT !.a = <<-1, -1, 0>>, !.b = <<2, -1, 0>>,
                                 !.c = <<-1, 2, 0>>],
                 [NoShape EXCEPT !.a = <<0, 0, 0>>, !.b = <<0, 2, 0>>,
                                 !.c = <<0, 0, 2>>]}

GeoSpheres == {[NoShape EXCEPT !.r = r] : r \in {1, 2}}

GeoBoxes == {[NoShape EXCEPT !.dims = d] : d \in {<<2, 2, 2>>, <<2, 4, 2>>}}

GeoRound == {[NoShape EXCEPT !.r = 1, !.dims = <<0, 2, 0>>]}

IdentityMInv == [k |-> 1, d |-> Zero3]

NoCall == [fn |-> "none", p0 |-> Zero3, v |-> Zero3, T |-> IdentityMInv,
           shape |-> NoShape, t |-> INF, p |-> Unwritten, n |-> Zero3,
           wrote |-> FALSE, defined |-> TRUE]

Called(fn, ray, T, shape, res) ==
    [fn |-> fn, p0 |-> ray.p0, v |-> ray.v, T |-> T, shape |-> shape,
     t |-> res.t, p |-> res.p, n |-> res.n, wrote |-> res.wrote,
     defined |-> res.defined]

IntersectPlane ==
    /\ isect.fn = "none"
    /\ LET ray == [p0 |-> isect.p0, v |-> isect.v]
           T == isect.T
       IN \E sh \in GeoPlanes :
         isect' = Called("rayIntersectPlane", ray, T, sh,
                         rayIntersectPlane(ray, sh.a, sh.c))
    /\ UNCHANGED <<canvasVars, shaded, trace, hit, shadow>>

IntersectTriangle ==
    /\ isect.fn = "none"
    /\ LET ray == [p0 |-> isect.p0, v |-> isect.v]
           T == isect.T
       IN \E sh \in GeoTriangles,
          u \in UnspecifiedQuotients :
         isect' = Called("rayIntersectTriangle", ray, T, sh,
                         rayIntersectTriangle(ray, sh.a, sh.b, sh.c, T, u))
    /\ UNCHANGED <<canvasVars, shaded, trace, hit, shadow>>

\* the discriminant of the call
SphereDisc(ray, c, r, T) ==
    LET local == LocalRay(ray, T)
        cp == VSub(local.p0, c)
        A == Dot(local.v, local.v)
        B == 2 * Dot(cp, local.v)
        C == Dot(cp, cp) - r * r
    IN B * B - 4 * A * C

IntersectSphere ==
    /\ isect.fn = "none"
    /\ LET ray == [p0 |-> isect.p0, v |-> isect.v]
           T == isect.T
       IN \E sh \in GeoSpheres,
          u \in UnspecifiedQuotients :
         /\ SphereDisc(ray, sh.c, sh.r, T) < 0
              \/ IsSquare(SphereDisc(ray, sh.c, sh.r, T))
         /\ isect' = Called("rayIntersectSphere", ray, T, sh,
                            rayIntersectSphere(ray, sh.c, sh.r, T, u))
    /\ UNCHANGED <<canvasVars, shaded, trace, hit, shadow>>

IntersectBox ==
    /\ isect.fn = "none"
    /\ LET ray == [p0 |-> isect.p0, v |-> isect.v]
           T == isect.T
       IN \E sh \in GeoBoxes :
         isect' = Called("rayIntersectBox", ray, T, sh,
                         rayIntersectBox(ray, sh.dims, sh.c, T))
    /\ UNCHANGED <<canvasVars, shaded, trace, hit, shadow>>

IntersectCylinder ==
    /\ isect.fn = "none"
    /\ LET ray == [p0 |-> isect.p0, v |-> isect.v]
           T == isect.T
       IN \E sh \in GeoRound :
         isect' = Called("rayIntersectCylinder", ray, T, sh,
                         rayIntersectCylinder(ray, sh.c, sh.r, sh.dims[2], T))
    /\ UNCHANGED <<canvasVars, shaded, trace, hit, shadow>>

IntersectCone ==
    /\ isect.fn = "none"
    /\ LET ray == [p0 |-> isect.p0, v |-> isect.v]
           T == isect.T
       IN \E sh \in GeoRound :
         isect' = Called("rayIntersectCone", ray, T, sh,
                         rayIntersectCone(ray, sh.c, sh.r, sh.dims[2], T))
    /\ UNCHANGED <<canvasVars, shaded, trace, hit, shadow>>

(***************************************************************************)
(* softShadow, lines 529-553, one sample per step.  Each sample casts a    *)
(* ray at the light (jittered after the first) through the generated       *)
(* rayIntersectScene; samples keeps what pointInSoftShadow returned.       *)
(***************************************************************************)
SOFT_NUMBER == 10

NoShadow == [pc |-> "start", i |-> 0, counter |-> 0, samples |-> <<>>,
             value |-> <<0, 1>>, p |-> Zero3, light |-> Zero3,
             ray |-> [p0 |-> [from |-> Zero3, along |-> Zero3], v |-> Zero3],
             t |-> INF, inShadow |-> FALSE]

\* the hit points and light positions of the calls, and the offsets
\* beaconRadius * normalize(vec3(x, y, z)) of the jittered samples
ShadowPoints == {Zero3}

ShadowLights == {<<0, 0, 2>>, <<3, 0, 0>>}

Jitters == {<<1, 0, 0>>, <<0, 1, 0>>}

\* lines 491-494 and 506-509: the ray cast at the light; p0 is the point
\* from + EPS * normalize(along)
ShadowRay(p, lpos) ==
    LET dir == VSub(lpos, p)
    IN [p0 |-> [from |-> p, along |-> dir], v |-> dir]

\* the distances a shadow ray can come back with: a blocker before the light
\* (t < 1), a hit at or behind it, no hit
ShadowDists == {<<1, 2>>, <<1, 1>>, <<2, 1>>, INF}

\* lines 490-503: false when t >= 1.0, else true
pointInShadow(t) == IF ~RLt(t, <<1, 1>>) THEN FALSE ELSE TRUE

\* a test that takes a hit at the light itself for a blocker
pointInSoftShadowAtLight(t) == IF RLt(<<1, 1>>, t) THEN 1 ELSE 0

\* lines 505-518: 1.0 when t >= 1.0, else 0.0
pointInSoftShadow(t) == IF RLt(t, <<1, 1>>) THEN 0 ELSE 1

\* a factor over the jittered samples only
ShadowFactorOverJittered(counter) == Rat(counter, SOFT_NUMBER)

\* line 550: counter / (float(SOFT_NUMBER) + 1.0)
ShadowFactor(counter) == Rat(counter, SOFT_NUMBER + 1)

\* line 537: the unjittered sample
SoftShadowFirst ==
    /\ shadow.pc = "start"
    /\ \E t \in ShadowDists, p \in ShadowPoints, l \in ShadowLights :
         shadow' = [shadow EXCEPT !.pc = "loop",
                                  !.p = p,
                                  !.light = l,
                                  !.ray = ShadowRay(p, l),
                                  !.t = t,
                                  !.counter = @ + pointInSoftShadow(t),
                                  !.samples = Append(@, pointInSoftShadow(t))]
    /\ UNCHANGED <<canvasVars, shaded, trace, isect, hit>>

\* lines 540-548: one jittered sample
SoftShadowSample ==
    /\ shadow.pc = "loop"
    /\ shadow.i < SOFT_NUMBER
    /\ \E t \in ShadowDists, randomValues \in Jitters :
         shadow' = [shadow EXCEPT !.i = @ + 1,
                                  !.ray = ShadowRay(shadow.p,
                                                    VAdd(shadow.light, randomValues)),
                                  !.t = t,
                                  !.counter = @ + pointInSoftShadow(t),
                                  !.samples = Append(@, pointInSoftShadow(t))]
    /\ UNCHANGED <<canvasVars, shaded, trace, isect, hit>>

\* lines 550-552
SoftShadowReturn ==
    /\ shadow.pc = "loop"
    /\ ~(shadow.i < SOFT_NUMBER)
    /\ shadow' = [shadow EXCEPT !.pc = "done", !.value = ShadowFactor(shadow.counter)]
    /\ UNCHANGED <<canvasVars, shaded, trace, isect, hit>>

\* lines 490-503: one call of the hard shadow test
PointInShadow ==
    /\ shadow.pc = "start"
    /\ \E t \in ShadowDists, p \in ShadowPoints, l \in ShadowLights :
         shadow' = [shadow EXCEPT !.pc = "tested",
                                  !.p = p,
                                  !.light = l,
                                  !.ray = ShadowRay(p, l),
                                  !.t = t,
                                  !.inShadow = pointInShadow(t)]
    /\ UNCHANGED <<canvasVars, shaded, trace, isect, hit>>

\* the next light or the next hit
SoftShadowNext ==
    /\ shadow.pc \in {"done", "tested"}
    /\ shadow' = NoShadow
    /\ UNCHANGED <<canvasVars, shaded, trace, isect, hit>>

(***************************************************************************)
(* The generated rayIntersectScene, run on one ray: the text is executed   *)
(* line by line; d[k] is what the k-th emitted primitive test returns for  *)
(* the ray.                                                                *)
(***************************************************************************)
PrimitiveFns == {"rayIntersectBox", "rayIntersectSphere", "rayIntersectCylinder",
                 "rayIntersectCone", "rayIntersectTriangle"}

SceneDists == {INF, <<1, 1>>, <<2, 1>>}

NumTests(src) == Cardinality({i \in 1..Len(src) : src[i].fn \in PrimitiveFns})

NoIntersection == [test |-> 0, mIdx |-> Undefined]

NoHit == [ran |-> FALSE, dists |-> <<>>, t |-> INF, test |-> 0, mIdx |-> Undefined]

\* a nearest-hit check that adopts every candidate
CheckNearestAlways(s) == [s EXCEPT !.tMin = s.tCurr, !.intersect = s.intersectCurr]

\* CHECK_NEAREST_INTERSECTION_SRC, lines 16-19
CheckNearest(s) ==
    IF RLt(s.tCurr, s.tMin)
    THEN [s EXCEPT !.tMin = s.tCurr, !.intersect = s.intersectCurr]
    ELSE s

ExecLine(s, l, d) ==
    IF l.fn \in PrimitiveFns
    THEN [s EXCEPT !.k = @ + 1, !.tCurr = d[s.k + 1],
                   !.intersectCurr = [test |-> s.k + 1, mIdx |-> l.mIdx]]
    ELSE IF l.fn = "if(tCurr < tMin)" THEN CheckNearest(s)
    ELSE IF l.fn = "float tMin = INF" THEN [s EXCEPT !.tMin = INF]
    ELSE IF l.fn = "float tCurr = INF" THEN [s EXCEPT !.tCurr = INF]
    ELSE IF l.fn = "return tMin" THEN [s EXCEPT !.ret = s.tMin]
    ELSE IF l.fn = "return INF" THEN [s EXCEPT !.ret = INF]
    ELSE s

RunText(src, d) ==
    LET s0 == [k |-> 0, tMin |-> INF, tCurr |-> INF, ret |-> INF,
               intersect |-> NoIntersection, intersectCurr |-> NoIntersection]
        F[i \in 0..Len(src)] == IF i = 0 THEN s0 ELSE ExecLine(F[i - 1], src[i], d)
    IN F[Len(src)]

\* whether the GLSL compiler accepts the text: every identifier a call
\* mentions is declared above it, and no argument is the word "undefined"
TextCompiles(src) ==
    \A i \in 1..Len(src) :
        src[i].fn \in PrimitiveFns =>
            /\ src[i].mIdx # Undefined
            /\ src[i].fn = "rayIntersectTriangle" =>
                  \A k \in {1, 3, 5} :
                     \E j \in 1..(i - 1) :
                        /\ src[j].fn = "vec3"
                        /\ src[j].ref = <<src[i].ref[k], src[i].ref[k + 1]>>

\* one fragment's call of rayIntersectScene in the program in use
RunScene ==
    /\ shader.linked
    /\ TextCompiles(shader.src)
    /\ ~hit.ran
    /\ \E d \in [1..NumTests(shader.src) -> SceneDists] :
         LET s == RunText(shader.src, d)
         IN hit' = [ran |-> TRUE, dists |-> d, t |-> s.ret,
                    test |-> s.intersect.test, mIdx |-> s.intersect.mIdx]
    /\ UNCHANGED <<canvasVars, shaded, trace, isect, shadow>>

(***************************************************************************)
(* main(), lines 665-714 (377-409 of raytracer.frag): the trace loop of    *)
(* one fragment.  rayIntersectScene is the generated routine of the active *)
(* program; each call misses or leaves in the out-parameter the material   *)
(* index of one of the emitted tests, a hit point and a unit normal.       *)
(* Colours are kept as the weights their Phong terms were scaled by, ks    *)
(* and the weight as one number (the three components fare alike).         *)
(***************************************************************************)
MAX_RECURSION == 4
MAX_RECURSION_FRAG == 3

ShaderFiles == {"part_000", "raytracer.frag"}

MaxRecursion(file) == IF file = "part_000" THEN MAX_RECURSION ELSE MAX_RECURSION_FRAG

\* the loop condition "depth < MAX_RECURSION" one past the bound
LoopContinuesOffByOne(file, depth) == depth <= MaxRecursion(file)

\* the loop condition "depth < MAX_RECURSION"
LoopContinues(file, depth) == depth < MaxRecursion(file)

Miss == -1

\* the material indices the tests of a generated routine carry
EmittedMaterials(src) ==
    {src[i].mIdx : i \in {j \in 1..Len(src) : src[j].fn \in PrimitiveFns}}

\* the ks of the scene's materials, 0 for a uniform never bound, and what
\* the ks of a Material that getMaterial left uninitialised may hold
SceneKs(name) == IF name = "red" THEN 2 ELSE IF name = "blue" THEN 3 ELSE 5

UninitialisedKs == {0, 7}

KsOf(m) ==
    IF m = "uninitialised" THEN UninitialisedKs
    ELSE IF m = "unbound" THEN {0}
    ELSE {SceneKs(m)}

\* the points and unit normals rayIntersectScene comes back with
TracePoints == {Zero3}

TraceNormals == {<<0, 0, 1>>, <<0, 0, -1>>, <<1, 0, 0>>}

\* getRay(), lines 623-641: the primary ray of the fragment
PrimaryRay == [p0 |-> [from |-> <<0, 0, 5>>, along |-> Zero3], v |-> <<1, 0, -1>>]

\* reflect(I, N) = I - 2 dot(N, I) N
Reflect(v, n) == VSub(v, VScale(2 * Dot(n, v), n))

\* lines 686-692: dot(ray.p0 - intersect.p, intersect.n) < 0.0 for
\* ray.p0 = from + EPS * along; the normal is negated then
InsideObj(ray, p, n) ==
    LET far == Dot(VSub(ray.p0.from, p), n)
    IN far < 0 \/ (far = 0 /\ Dot(ray.p0.along, n) < 0)

\* lines 694-697, which raytracer.frag does not have: the ray and the
\* weight of the next depth
ReflectedRay(file, ray, p, n) ==
    IF file = "part_000"
    THEN [p0 |-> [from |-> p, along |-> Reflect(ray.v, n)], v |-> Reflect(ray.v, n)]
    ELSE ray

NextWeight(file, weight, ks) == IF file = "part_000" THEN weight * ks ELSE weight

\* a loop that goes on after a miss
NextPcNoBreak(m) == "loop"

\* lines 680 and 706-709: the loop breaks at a miss
NextPc(m) == IF m = Miss THEN "write" ELSE "loop"

NoLast == [m |-> Miss, v |-> Zero3, n |-> Zero3, p |-> Zero3, ks |-> 0]

TraceStart(file) == [file |-> file, pc |-> "loop", depth |-> 0, nIsect |-> 0,
                     hits |-> <<>>, written |-> FALSE, beacon |-> FALSE,
                     ray |-> PrimaryRay, weight |-> 1, color |-> <<>>,
                     missed |-> FALSE, last |-> NoLast]

\* lines 681-697: the body for a hit on material index m at p with normal n
TraceHit(m, p, n, ks) ==
    LET flipped == IF InsideObj(trace.ray, p, n) THEN VScale(-1, n) ELSE n
    IN trace' = [trace EXCEPT
                   !.nIsect = @ + 1,
                   !.hits = Append(@, m),
                   !.depth = @ + 1,
                   !.pc = NextPc(m),
                   !.color = Append(@, trace.weight),
                   !.weight = NextWeight(trace.file, @, ks),
                   !.ray = ReflectedRay(trace.file, @, p, flipped),
                   !.last = [m |-> m, v |-> trace.ray.v, n |-> flipped, p |-> p,
                             ks |-> ks]]

\* lines 706-709
TraceMiss ==
    trace' = [trace EXCEPT !.nIsect = @ + 1,
                           !.missed = TRUE,
                           !.depth = IF NextPc(Miss) = "loop" THEN @ + 1 ELSE @,
                           !.pc = NextPc(Miss)]

\* one evaluation of the loop condition and, if it holds, one loop body; a
\* ray that did not change meets what it met before
TraceIteration ==
    /\ trace.pc = "loop"
    /\ shader.linked
    /\ IF LoopContinues(trace.file, trace.depth)
       THEN IF trace.file # "part_000" /\ trace.nIsect > 0
            THEN IF trace.missed THEN TraceMiss
                 ELSE TraceHit(trace.last.m, trace.last.p, trace.last.n, trace.last.ks)
            ELSE \/ TraceMiss
                 \/ \E m \in EmittedMaterials(shader.src), p \in TracePoints,
                       n \in TraceNormals :
                       \E ks \in KsOf(getMaterial(uniforms, m)) :
                          TraceHit(m, p, n, ks)
       ELSE trace' = [trace EXCEPT !.pc = "write"]
    /\ UNCHANGED <<canvasVars, shaded, isect, hit, shadow>>

\* gl_FragColor = vec4(color, 1.0), line 712
WriteColor ==
    /\ trace.pc = "write"
    /\ trace' = [trace EXCEPT !.pc = "beacons", !.written = TRUE]
    /\ UNCHANGED <<canvasVars, shaded, isect, hit, shadow>>

\* showLightBeacons(rayInitial, tInitial), lines 643-663: a beacon nearer
\* than the first hit replaces the colour
showLightBeacons ==
    /\ trace.pc = "beacons"
    /\ \E b \in BOOLEAN : trace' = [trace EXCEPT !.pc = "done", !.beacon = b]
    /\ UNCHANGED <<canvasVars, shaded, isect, hit, shadow>>

\* the next fragment
NextFragment ==
    /\ trace.pc = "done"
    /\ trace' = TraceStart(trace.file)
    /\ UNCHANGED <<canvasVars, shaded, isect, hit, shadow>>

PixelInit ==
    /\ shaded = [scene |-> <<>>, color |-> <<>>]
    /\ trace \in {TraceStart(f) : f \in ShaderFiles}
    /\ isect = NoCall
    /\ hit = NoHit
    /\ shadow = NoShadow

vars == <<canvasVars, pixelVars>>

(***************************************************************************)
(* The compiler's specification: scenes are loaded and compiled, repaints  *)
(* are requested by dragging; nobody walks.                                *)
(***************************************************************************)
Init ==
    /\ CanvasInit
    /\ shaded = [scene |-> <<>>, color |-> <<>>]
    /\ trace = TraceStart("part_000")
    /\ isect = NoCall
    /\ hit = NoHit
    /\ shadow = NoShadow

Next ==
    \/ LoadScene /\ UNCHANGED pixelVars
    \/ updateScene /\ UNCHANGED pixelVars
    \/ repaint /\ UNCHANGED pixelVars
    \/ clickerDraggedSync /\ UNCHANGED pixelVars

Spec == Init /\ [][Next]_vars

(***************************************************************************)
(* The frame driver's specification: every handler of the canvas, over     *)
(* scenes 1 and 3 and MaxFrameCompiles compilations.                       *)
(***************************************************************************)
MaxFrameCompiles == 1

FrameLoadScene == LoadSceneFrom({1, 3}, {TRUE})

FrameUpdateScene == updateSceneWithin(MaxFrameCompiles)

FrameNext ==
    \/ FrameLoadScene /\ UNCHANGED pixelVars
    \/ SetCamera /\ UNCHANGED pixelVars
    \/ KeyEvent /\ UNCHANGED pixelVars
    \/ FrameUpdateScene /\ UNCHANGED pixelVars
    \/ repaint /\ UNCHANGED pixelVars
    \/ clickerDraggedSync /\ UNCHANGED pixelVars
    \/ orthographicChange /\ UNCHANGED pixelVars
    \/ menuChange /\ UNCHANGED pixelVars

SpecFrame == Init /\ [][FrameNext]_vars

(***************************************************************************)
(* The menus' specification: a scene is loaded and compiled, once or       *)
(* again, and the values of the menu controllers are changed.              *)
(***************************************************************************)
MenuLoadScene == LoadSceneFrom({1, 3}, {TRUE})

MenuNext ==
    \/ MenuLoadScene /\ UNCHANGED pixelVars
    \/ SetCamera /\ UNCHANGED pixelVars
    \/ updateScene /\ UNCHANGED pixelVars
    \/ menuChange /\ UNCHANGED pixelVars
    \/ repaint /\ UNCHANGED pixelVars

SpecMenu == Init /\ [][MenuNext]_vars

(***************************************************************************)
(* The light binding's specification: scene 1 has been loaded and compiled *)
(* (both programs linked); the loader grows scene.lights, and a frame      *)
(* binds the uniforms and shades a hit.                                    *)
(***************************************************************************)
LightsInit ==
    LET mi == [n \in MaterialNames |->
                 IF n = "red" THEN 0 ELSE IF n = "blue" THEN 1 ELSE Undefined]
        out == CompileScene(1, mi, [m \in MeshIds |-> NoPrefix])
        prog == [id |-> 2, linked |-> TRUE, src |-> out.str]
    IN /\ shader = prog
       /\ lastGood = prog
       /\ alerts = 0
       /\ fragmentShader = 2
       /\ deletedShaders = {1}
       /\ nCompiles = 2
       /\ scene = 1
       /\ materialsArr = [built |-> TRUE, arr |-> SceneMaterials(1)]
       /\ matI = mi
       /\ lights = [isNull |-> FALSE, arr |-> <<>>]
       /\ meshPrefix = out.prefix
       /\ meshIdx = out.meshIdx
       /\ camera = "cam"
       /\ movelr = 0 /\ moveud = 0 /\ movefb = 0
       /\ orthographic = FALSE
       /\ wraps = 1
       /\ pending = 0
       /\ uniforms = ZeroUniforms
       /\ lastRepaint = NoRepaint
       /\ hist = [prevSrc |-> <<>>, src |-> out.str, n |-> 1, log |-> SceneLog(1)]
       /\ shaded = [scene |-> <<>>, color |-> <<>>]
       /\ trace = TraceStart("part_000")
       /\ isect = NoCall
       /\ hit = NoHit
       /\ shadow = NoShadow

\* the loader appends a light to scene.lights
AddLight ==
    /\ Len(lights.arr) < MaxSceneLights
    /\ \E l \in {LightA, LightB} : lights' = [lights EXCEPT !.arr = Append(@, l)]
    /\ UNCHANGED <<shader, fragmentShader, deletedShaders, alerts, lastGood,
                   nCompiles, scene, materialsArr, matI, meshPrefix, meshIdx,
                   camera, movelr, moveud, movefb, orthographic, wraps, pending,
                   uniforms, lastRepaint, hist, shaded, trace, isect, hit,
                   shadow>>

\* one frame: updateUniforms, then getPhongColor at a hit
ShadeFrame ==
    LET uu == updateUniforms(uniforms, shader.linked, camera, scene, lights,
                             materialsArr)
    IN /\ uniforms' = uu.u
       /\ shaded' = [scene |-> lights.arr, color |-> getPhongColor(uu.u)]
       /\ UNCHANGED <<shader, fragmentShader, deletedShaders, alerts, lastGood,
                      nCompiles, scene, materialsArr, matI, lights, meshPrefix,
                      meshIdx, camera, movelr, moveud, movefb, orthographic,
                      wraps, pending, lastRepaint, hist, trace, isect, hit,
                      shadow>>

LightsNext ==
    \/ AddLight
    \/ ShadeFrame

SpecLights == LightsInit /\ [][LightsNext]_vars

(***************************************************************************)
(* The trace loop's specification, for both shader files: scene 1 or       *)
(* scene 4 has been loaded and compiled, the program linked and a redraw   *)
(* bound the uniforms; the GPU runs every fragment to its end.             *)
(***************************************************************************)
TraceInit ==
    \E sc \in {1, 4} :
      LET names == SceneMaterials(sc)
          mi == [n \in MaterialNames |->
                   IF \E k \in 1..Len(names) : names[k] = n
                   THEN (CHOOSE k \in 1..Len(names) : names[k] = n) - 1
                   ELSE Undefined]
          out == CompileScene(sc, mi, [m \in MeshIds |-> NoPrefix])
          prog == [id |-> 2, linked |-> TRUE, src |-> out.str]
          mats == [built |-> TRUE, arr |-> names]
      IN /\ shader = prog
         /\ lastGood = prog
         /\ alerts = 0
         /\ fragmentShader = 2
         /\ deletedShaders = {1}
         /\ nCompiles = 2
         /\ scene = sc
         /\ materialsArr = mats
         /\ matI = mi
         /\ lights = SceneLights(sc)
         /\ meshPrefix = out.prefix
         /\ meshIdx = out.meshIdx
         /\ camera = "cam"
         /\ movelr = 0 /\ moveud = 0 /\ movefb = 0
         /\ orthographic = FALSE
         /\ wraps = 1
         /\ pending = 0
         /\ uniforms = updateUniforms(ZeroUniforms, TRUE, "cam", sc,
                                      SceneLights(sc), mats).u
         /\ lastRepaint = NoRepaint
         /\ hist = [prevSrc |-> <<>>, src |-> out.str, n |-> 1, log |-> SceneLog(sc)]
         /\ PixelInit

TraceNext ==
    \/ TraceIteration
    \/ WriteColor
    \/ showLightBeacons
    \/ NextFragment

SpecTrace ==
    /\ TraceInit
    /\ [][TraceNext]_vars
    /\ WF_vars(TraceIteration)
    /\ WF_vars(WriteColor)
    /\ WF_vars(showLightBeacons)

(***************************************************************************)
(* The primitive routines' specification: each step is one call.           *)
(***************************************************************************)
\* the ray and the instance transform of the call to come
GeomInit ==
    /\ CanvasInit
    /\ shaded = [scene |-> <<>>, color |-> <<>>]
    /\ trace = TraceStart("part_000")
    /\ \E ray \in GeoRays, T \in GeoTransforms :
         isect = [NoCall EXCEPT !.p0 = ray.p0, !.v = ray.v, !.T = T]
    /\ hit = NoHit
    /\ shadow = NoShadow

GeomNext ==
    \/ IntersectPlane
    \/ IntersectTriangle
    \/ IntersectSphere
    \/ IntersectBox
    \/ IntersectCylinder
    \/ IntersectCone

SpecGeom == GeomInit /\ [][GeomNext]_vars

(***************************************************************************)
(* The generated routine's specification: scenes 1, 3 and 4 are loaded and *)
(* compiled, and the program in use runs rayIntersectScene on a ray.       *)
(***************************************************************************)
SceneLoad ==
    /\ LoadSceneFrom({1, 3, 4}, BOOLEAN)
    /\ UNCHANGED pixelVars

SceneUpdate ==
    /\ updateScene
    /\ hit' = NoHit
    /\ UNCHANGED <<shaded, trace, isect, shadow>>

SceneNext ==
    \/ SceneLoad
    \/ SceneUpdate
    \/ RunScene

SpecScene == Init /\ [][SceneNext]_vars

(***************************************************************************)
(* The soft shadow's specification.                                        *)
(***************************************************************************)
ShadowNext ==
    \/ PointInShadow
    \/ SoftShadowFirst
    \/ SoftShadowSample
    \/ SoftShadowReturn
    \/ SoftShadowNext

SpecShadow == Init /\ [][ShadowNext]_vars

(***************************************************************************)
(* Properties of compilation.                                              *)
(***************************************************************************)

\* C1: once a program has linked, glcanvas.shader and glcanvas.fragmentShader
\* stay those of the last program that linked, whatever later setupShaders
\* calls fail to link, and that program is the one every later repaint uses.
C1_PriorProgramStaysActive ==
    lastGood.id # 0 =>
        /\ shader = lastGood
        /\ fragmentShader = lastGood.id
        /\ fragmentShader \notin deletedShaders
        /\ (lastRepaint.ran => lastRepaint.program = lastGood.id)

\* C2: while no program has ever linked, a repaint is a no-op: it makes no
\* useProgram, uniform or draw call on the failed program and does not throw.
C2_RepaintWithoutProgramIsNoOp ==
    (lastGood.id = 0 /\ lastRepaint.ran) =>
        /\ lastRepaint.program = 0
        /\ ~lastRepaint.drew
        /\ ~lastRepaint.threw

\* C3: the second of two consecutive updateScene calls on an unchanged scene
\* passes setupShaders the same text as the first.
C3_CompileTwiceSameText ==
    hist.n = 2 => hist.src = hist.prevSrc

\* the meshes that scene sc's shapes reference
SceneMeshIds(sc) == IF sc = 1 THEN {1} ELSE IF sc = 2 THEN {1, 2} ELSE {}

DeclaredBefore(src, i, name) ==
    \E j \in 1..(i - 1) : src[j].fn = "vec3" /\ src[j].ref = name

\* C4: in the text of every updateScene call, each vertex of each mesh of the
\* scene is declared exactly once, and a rayIntersectTriangle call mentions
\* only vertex constants declared earlier in that text.
C4_VerticesDeclaredOnceBeforeUse ==
    hist.n >= 1 =>
        LET src == hist.src
        IN /\ \A m \in SceneMeshIds(scene) : \A v \in 1..Len(MeshVertices(m)) :
                 Cardinality({j \in 1..Len(src) :
                                 /\ src[j].fn = "vec3"
                                 /\ src[j].ref = <<meshPrefix[m], v - 1>>}) = 1
           /\ \A i \in 1..Len(src) :
                 src[i].fn = "rayIntersectTriangle" =>
                    \A k \in {1, 3, 5} :
                       DeclaredBefore(src, i, <<src[i].ref[k], src[i].ref[k + 1]>>)

\* C28: after any sequence of updateScene calls, in which a later scene may
\* reuse mesh objects compiled earlier beside new ones, any two distinct
\* meshes referenced in one generated routine have distinct prefixes, so
\* that their vertex constants never share a name.
C28_DistinctMeshPrefixes ==
    hist.n >= 1 =>
        \A a, b \in SceneMeshIds(scene) :
            a # b =>
              /\ meshPrefix[a] # meshPrefix[b]
              /\ {<<meshPrefix[a], v - 1>> : v \in 1..Len(MeshVertices(a))}
                    \cap {<<meshPrefix[b], v - 1>> : v \in 1..Len(MeshVertices(b))}
                  = {}

(***************************************************************************)
(* Properties of the frame driver.                                         *)
(***************************************************************************)

\* C5: a repaint (walking or not), a mouse drag, an orthographic toggle, a
\* menu change, a key event or a camera change never calls setupShaders and
\* leaves the compiled program as it was.
C5_OnlyUpdateSceneCompiles ==
    [][(repaint \/ clickerDraggedSync \/ orthographicChange \/ menuChange
          \/ KeyEvent \/ SetCamera)
       => (shader' = shader /\ fragmentShader' = fragmentShader
             /\ nCompiles' = nCompiles)]_vars

\* a walking frame was painted with the program updateScene compiled, after
\* the orthographic box was ticked
C5_Witness ==
    /\ nCompiles = 2
    /\ orthographic
    /\ lastRepaint.ran /\ lastRepaint.moving /\ lastRepaint.requested = 1
    /\ lastRepaint.program = shader.id

\* C6: a repaint requests exactly one further repaint when a movement flag is
\* nonzero as it runs, and none when all three are zero.
C6_RepaintRequestsIffMoving ==
    lastRepaint.ran =>
        lastRepaint.requested = (IF lastRepaint.moving THEN 1 ELSE 0)

\* C19: no repaint throws, whatever the state it runs in: camera null (with
\* or without a movement flag), scene null, scene.lights null, or a scene
\* whose materialsArr updateScene has not built yet.
C19_RepaintNeverThrows ==
    lastRepaint.ran => (~lastRepaint.threw /\ lastRepaint.drew)

\* C29: after any number n >= 1 of updateScene calls on an active canvas, a
\* single value change of a menu controller invokes the controller's
\* original handler exactly once and issues exactly one repaint request,
\* however large n is.
C29_OneRepaintPerMenuChange ==
    [][menuChangeOn(TRUE) =>
         /\ HandlerChain(wraps, TRUE).handled = 1
         /\ pending' = pending + 1]_vars

(***************************************************************************)
(* Properties of shading.                                                  *)
(***************************************************************************)

\* the scene with only its first MAX_LIGHTS lights
FirstLights(arr) == SubSeq(arr, 1, Min(MAX_LIGHTS, Len(arr)))

\* C7: the lights bound by updateUniforms and iterated by getPhongColor are
\* the first MAX_LIGHTS lights of the scene in declaration order, and the
\* shaded result is that of the scene cut down to those lights.
C7_LightTruncation ==
    /\ shaded.color = FirstLights(shaded.scene)
    /\ shaded.color =
         getPhongColor(updateUniforms(ZeroUniforms, TRUE, camera, scene,
                                      [isNull |-> FALSE, arr |-> FirstLights(shaded.scene)],
                                      materialsArr).u)
    /\ shaded.scene = lights.arr /\ shaded.scene # <<>> =>
         /\ uniforms.numLights = Min(MAX_LIGHTS, Len(lights.arr))
         /\ \A i \in 1..uniforms.numLights : uniforms.lights[i] = lights.arr[i]

\* a scene of MAX_LIGHTS + 1 lights whose last light differs from its first
\* has been shaded
C7_Witness ==
    /\ Len(shaded.scene) = MAX_LIGHTS + 1
    /\ shaded.scene[1] = LightA
    /\ shaded.scene[MAX_LIGHTS + 1] = LightB
    /\ Len(shaded.color) = MAX_LIGHTS

\* C21: on every redraw, every field of the lights and materials in range
\* that the shading code reads (light pos, color, atten, towards, angle;
\* material kd, ks, shininess) has been bound by updateUniforms before the
\* draw.
C21_EveryFieldReadIsBound ==
    shaded.color # <<>> =>
        /\ \A i \in 1..uniforms.numLights :
               /\ uniforms.lights[i] = shaded.scene[i]
               /\ LightFieldsRead \subseteq LightFieldsBound
        /\ \A i \in 1..uniforms.numMaterials :
               /\ uniforms.materials[i] = materialsArr.arr[i]
               /\ MaterialFieldsRead \subseteq MaterialFieldsBound

\* C8: a fragment's trace loop calls rayIntersectScene at most MAX_RECURSION
\* times (4 in part_000, 3 in raytracer.frag) and then writes the colour,
\* whatever the calls return.
C8_TraceTerminates ==
    /\ [](trace.nIsect <= MaxRecursion(trace.file))
    /\ [](trace.written <=> trace.pc \in {"beacons", "done"})
    /\ (trace.pc = "loop") ~> (trace.pc = "done" /\ trace.written)

\* every ray of a fragment hit a surface and the colour was written after
\* MAX_RECURSION intersections
C8_Witness ==
    /\ trace.file = "part_000"
    /\ trace.written
    /\ trace.nIsect = MAX_RECURSION
    /\ Len(trace.hits) = MAX_RECURSION

\* the product of the specular reflectances of the scene's materials with
\* the indices hits[1..d]
KsProduct(hits, d) ==
    LET P[k \in 0..d] ==
          IF k = 0 THEN 1 ELSE P[k - 1] * SceneKs(materialsArr.arr[hits[k] + 1])
    IN P[d]

\* C26: in the trace loop of part_000 the Phong colour of the hit at depth d
\* is added scaled by the product of the ks of the materials hit at depths
\* 0..d-1 (weight 1 at depth 0), and the ray for depth d+1 starts at the hit
\* point + EPS * r with direction r, the mirror reflection of the incoming
\* direction about the (possibly flipped) normal.
C26_ReflectionWeighting ==
    trace.file = "part_000" =>
        /\ Len(trace.color) = Len(trace.hits)
        /\ \A d \in 1..Len(trace.color) :
               trace.color[d] = KsProduct(trace.hits, d - 1)
        /\ trace.hits # <<>> =>
               /\ trace.ray.p0 = [from |-> trace.last.p, along |-> trace.ray.v]
               /\ Dot(trace.ray.v, trace.last.n) = -Dot(trace.last.v, trace.last.n)
               /\ Cross(VSub(trace.ray.v, trace.last.v), trace.last.n) = Zero3

C9_ReturnsInfOrPositive ==
    (isect.fn # "none" /\ isect.defined) => (IsINF(isect.t) \/ isect.t[1] > 0)

\* C10: whenever a routine returns a finite t, under any instance transform,
\* intersect.p was written with the world-space point ray.p0 + t*ray.v.
\* (Stated for the calls whose divisions are all defined.)
C10_HitPointIsWorldPoint ==
    (isect.fn # "none" /\ isect.defined /\ ~IsINF(isect.t)) =>
        /\ isect.wrote
        /\ \A i \in 1..3 :
               isect.p.n[i] * isect.t[2] =
                   (isect.p0[i] * isect.t[2] + isect.v[i] * isect.t[1]) * isect.p.d

\* whether the ray, taken to the shape's coordinates, passes through the
\* point c in front of its origin
AimedAt(ray, T, c) ==
    LET local == LocalRay(ray, T)
        to == VSub(c, local.p0)
    IN /\ Cross(to, local.v) = Zero3
       /\ Dot(to, local.v) > 0

\* C18: a ray that crosses the surface of a cylinder or cone instance in
\* front of its origin gets a finite distance from rayIntersectCylinder /
\* rayIntersectCone.  (A ray aimed at the centre c, a point of the solid,
\* crosses the lateral surface or a cap.)
C18_RoundShapesAreHit ==
    (/\ isect.fn \in {"rayIntersectCylinder", "rayIntersectCone"}
     /\ AimedAt([p0 |-> isect.p0, v |-> isect.v], isect.T, isect.shape.c))
        => ~IsINF(isect.t)

\* whether the call is the one of the example: the sphere centred at the
\* origin, the identity transform, the ray from (0,0,5) along (0,0,-1)
OnAxisSphereCall ==
    /\ isect.fn = "rayIntersectSphere"
    /\ isect.p0 = <<0, 0, 5>>
    /\ isect.v = <<0, 0, -1>>
    /\ isect.T = IdentityMInv
    /\ isect.shape.c = Zero3

\* whether intersect.p is the point q and intersect.n, once normalised, the
\* unit vector e
HitAt(q, e) ==
    /\ isect.wrote
    /\ \A i \in 1..3 : isect.p.n[i] = q[i] * isect.p.d
    /\ Cross(isect.n, e) = Zero3
    /\ Dot(isect.n, e) > 0

\* C20 (as amended): for a sphere of radius r < 5 centred at the origin under
\* the identity transform and the ray from (0,0,5) with direction (0,0,-1),
\* rayIntersectSphere returns t = 5 - r with hit point (0,0,r) and outward
\* normal (0,0,1); t = 4 and the point (0,0,1) are the case r = 1.
C20_OnAxisSphereHit ==
    OnAxisSphereCall =>
        /\ isect.t = <<5 - isect.shape.r, 1>>
        /\ HitAt(<<0, 0, isect.shape.r>>, <<0, 0, 1>>)

C20_Witness ==
    /\ OnAxisSphereCall
    /\ isect.shape.r = 2
    /\ isect.t = <<3, 1>>
    /\ HitAt(<<0, 0, 2>>, <<0, 0, 1>>)

\* C20 (as stated): for a sphere of any radius r the same call returns t = 4
\* with hit point (0,0,1) and outward normal (0,0,1).
C20_OnAxisSphereHitAtFour ==
    OnAxisSphereCall =>
        /\ isect.t = <<4, 1>>
        /\ HitAt(<<0, 0, 1>>, <<0, 0, 1>>)

\* the quadratic A t^2 + B t + C of a sphere call, lines 216-220
SphereQuadratic ==
    LET local == LocalRay([p0 |-> isect.p0, v |-> isect.v], isect.T)
        cp == VSub(local.p0, isect.shape.c)
    IN [A |-> Dot(local.v, local.v),
        B |-> 2 * Dot(cp, local.v),
        C |-> Dot(cp, cp) - isect.shape.r * isect.shape.r]

\* C22: rayIntersectSphere, for a ray with a direction: with a discriminant
\* that is negative it returns INF; otherwise (the tangent case, discriminant
\* 0, included) it returns the smaller root when that is positive, else the
\* larger root when that is positive, else INF.  Put without the roots'
\* formula: a finite result is a positive root of the quadratic and the other
\* root (-B/A - t) is not a smaller positive one; INF is returned exactly
\* when there is no root or no root is positive (sum of the roots -B/A <= 0
\* and their product C/A >= 0).
C22_SphereRootSelection ==
    (isect.fn = "rayIntersectSphere" /\ isect.defined) =>
        LET q == SphereQuadratic
            disc == q.B * q.B - 4 * q.A * q.C
            n == isect.t[1]
            d == isect.t[2]
            other == Rat(-(q.B * d) - q.A * n, q.A * d)
        IN /\ IsINF(isect.t) <=> (disc < 0 \/ (q.B >= 0 /\ q.C >= 0))
           /\ ~IsINF(isect.t) =>
                 /\ RPos(isect.t)
                 /\ q.A * n * n + q.B * n * d + q.C * d * d = 0
                 /\ ~(RPos(other) /\ RLt(other, isect.t))
                 /\ disc = 0 => other = isect.t

\* a tangent ray: the discriminant is 0 and the double root 2 is returned
C22_Witness ==
    /\ isect.fn = "rayIntersectSphere"
    /\ isect.defined
    /\ SphereQuadratic.B * SphereQuadratic.B
         = 4 * SphereQuadratic.A * SphereQuadratic.C
    /\ isect.p0 = <<1, 0, 2>>
    /\ isect.t = <<2, 1>>

\* C23: rayIntersectPlane returns INF when the direction is parallel to the
\* plane (dot(v, n) = 0, a zero direction included) or the solved t is <= 0,
\* and writes nothing to the out-parameter then; otherwise it returns
\* t = dot(p - p0, n) / dot(v, n) > 0 and writes the out-parameter (the point
\* p0 + t v and the plane's normal).
C23_PlaneHitOrInf ==
    isect.fn = "rayIntersectPlane" =>
        LET denom == Dot(isect.v, isect.shape.a)
            num == Dot(VSub(isect.shape.c, isect.p0), isect.shape.a)
        IN IF denom = 0 \/ num * denom <= 0
           THEN IsINF(isect.t) /\ ~isect.wrote /\ isect.p = Unwritten
           ELSE /\ ~IsINF(isect.t)
                /\ RPos(isect.t)
                /\ isect.t[1] * denom = num * isect.t[2]
                /\ isect.wrote
                /\ isect.p = PointAt(isect.p0, isect.v, isect.t)
                /\ isect.n = isect.shape.a

\* the plane z = 0 is hit from (0,0,5) at t = 5
C23_Witness ==
    /\ isect.fn = "rayIntersectPlane"
    /\ isect.p0 = <<0, 0, 5>>
    /\ isect.v = <<0, 0, -1>>
    /\ isect.shape.a = <<0, 0, 1>>
    /\ isect.shape.c = Zero3
    /\ isect.t = <<5, 1>>
    /\ isect.wrote

\* where the local ray of a box call meets the six face planes in front of
\* its origin: the distance t and the axis of the face
BoxPlaneHits ==
    LET local == LocalRay([p0 |-> isect.p0, v |-> isect.v], isect.T)
        c == isect.shape.c
        dims == isect.shape.dims
    IN {h \in {[t |-> Rat(c[k] + sgn * (dims[k] \div 2) - local.p0[k], local.v[k]),
                axis |-> k] :
                  k \in {a \in 1..3 : local.v[a] # 0}, sgn \in {-1, 1}} :
          RPos(h.t)}

\* whether the local point of the plane hit h lies within the box's extent
\* (min < x < max) on the two axes other than the face's
InExtent(h) ==
    LET local == LocalRay([p0 |-> isect.p0, v |-> isect.v], isect.T)
        c == isect.shape.c
        dims == isect.shape.dims
        q == PointAt(local.p0, local.v, h.t)
    IN \A b \in (1..3) \ {h.axis} :
          /\ (c[b] - dims[b] \div 2) * q.d < q.n[b]
          /\ q.n[b] < (c[b] + dims[b] \div 2) * q.d

FoldInOrder(d, p) ==
    LET F[i \in 0..Len(p)] ==
          IF i = 0 THEN [tMin |-> INF, tCurr |-> INF, intersect |-> NoIntersection,
                         intersectCurr |-> NoIntersection]
          ELSE CheckNearest([F[i - 1] EXCEPT !.tCurr = d[p[i]]])
    IN F[Len(p)].tMin

TestOrders(n) == {p \in [1..n -> 1..n] : \A i, j \in 1..n : p[i] = p[j] => i = j}

\* C11: a run of the generated rayIntersectScene returns the minimum of the
\* distances its emitted tests return (INF when all return INF), and the
\* checks return that same distance with the tests taken in any other order.
C11_ReturnsMinimumInAnyOrder ==
    hit.ran =>
        LET n == Len(hit.dists)
        IN /\ n = NumTests(shader.src)
           /\ \A i \in 1..n : ~RLt(hit.dists[i], hit.t)
           /\ hit.t = INF \/ \E i \in 1..n : hit.dists[i] = hit.t
           /\ \A p \in TestOrders(n) : FoldInOrder(hit.dists, p) = hit.t

\* a scene of four tests was run on a ray that the second test hits nearest
\* and the third hits farther away
C11_Witness ==
    /\ hit.ran
    /\ Len(hit.dists) = 4
    /\ hit.dists[1] = INF /\ hit.dists[2] = <<1, 1>> /\ hit.dists[3] = <<2, 1>>
    /\ hit.t = <<1, 1>>

\* the emitted primitive calls of a text, in traversal order
Tests(src) == SelectSeq(src, LAMBDA l : l.fn \in PrimitiveFns)

\* C12: when several emitted tests return the same minimal distance, the
\* out-parameter holds the test and material index of the first of them in
\* traversal order, and compiling the same scene again gives a routine with
\* the same winner for every ray.
C12_FirstMinimalWinsOnEveryCompilation ==
    /\ (hit.ran /\ hit.t # INF) =>
          /\ hit.dists[hit.test] = hit.t
          /\ \A i \in 1..(hit.test - 1) : hit.dists[i] # hit.t
          /\ hit.mIdx = Tests(shader.src)[hit.test].mIdx
    /\ (hist.n = 2 /\ TextCompiles(hist.prevSrc)) =>
          /\ TextCompiles(hist.src)
          /\ \A d \in [1..NumTests(hist.src) -> SceneDists] :
                RunText(hist.src, d).intersect = RunText(hist.prevSrc, d).intersect

\* the meshes of scene sc's mesh shapes, in traversal order
SceneMeshShapes(sc) == IF sc = 1 THEN <<1>> ELSE IF sc = 2 THEN <<2, 1, 1>> ELSE <<>>

\* the fan of a face [v0, ..., v(n-1)]: (v0, v(t+1), v(t+2)) for t = 0..n-3
FanOf(f) == [t \in 1..(Len(f) - 2) |-> <<f[1], f[t + 1], f[t + 2]>>]

RECURSIVE FansOfFaces(_, _)
FansOfFaces(faces, i) ==
    IF i > Len(faces) THEN <<>> ELSE FanOf(faces[i]) \o FansOfFaces(faces, i + 1)

RECURSIVE FansOfMeshes(_, _)
FansOfMeshes(ms, i) ==
    IF i > Len(ms) THEN <<>>
    ELSE FansOfFaces(MeshFaces(ms[i]), 1) \o FansOfMeshes(ms, i + 1)

\* the vertex IDs of the rayIntersectTriangle calls of a text, in order
TriangleCalls(src) ==
    LET tris == SelectSeq(src, LAMBDA l : l.fn = "rayIntersectTriangle")
    IN [i \in 1..Len(tris) |-> <<tris[i].ref[2], tris[i].ref[4], tris[i].ref[6]>>]

\* C13: for every face [v0, ..., v(n-1)] of every mesh shape the compiled
\* text holds exactly n-2 rayIntersectTriangle calls, the t-th on
\* (v0, v(t+1), v(t+2)); a quadrilateral gives (A,B,C) and (A,C,D).
C13_FanTriangulation ==
    hist.n >= 1 =>
        /\ TriangleCalls(hist.src) = FansOfMeshes(SceneMeshShapes(scene), 1)
        /\ \A i \in 1..Len(hist.src) :
              hist.src[i].fn = "rayIntersectTriangle" =>
                 /\ hist.src[i].ref[1] = hist.src[i].ref[3]
                 /\ hist.src[i].ref[3] = hist.src[i].ref[5]

\* the quadrilateral of scene 1 was compiled into its two triangles
C13_Witness ==
    /\ hist.n >= 1
    /\ scene = 1
    /\ TriangleCalls(hist.src) = << <<0, 1, 2>>, <<0, 2, 3>> >>

\* the shapes of a scene in the order the traversal visits them
RECURSIVE ShapesOfNodes(_, _)
ShapesOfNodes(nodes, i) ==
    IF i > Len(nodes) THEN <<>>
    ELSE nodes[i].shapes
           \o (IF Has(nodes[i], "children")
               THEN ShapesOfNodes(nodes[i].children, 1) ELSE <<>>)
           \o ShapesOfNodes(nodes, i + 1)

AnalyticTypes == {"box", "sphere", "cylinder", "cone"}

\* an authoring error: no material, a mesh shape without a mesh, or a type
\* the compiler does not know
Offending(shape) ==
    \/ ~Has(shape, "material")
    \/ shape.type = "mesh" /\ shape.mesh = NullMesh
    \/ shape.type \notin AnalyticTypes \cup {"mesh"}

RoutineOf(type) ==
    IF type = "box" THEN "rayIntersectBox"
    ELSE IF type = "sphere" THEN "rayIntersectSphere"
    ELSE IF type = "cylinder" THEN "rayIntersectCylinder"
    ELSE "rayIntersectCone"

\* C14: in a compilation, every shape without a material, mesh shape without
\* a mesh and shape of unknown type adds no code and has a warning logged,
\* and all other shapes of the node and of later nodes still get their code.
C14_AuthoringErrorsSkippedAndLogged ==
    hist.n >= 1 =>
        LET shapes == ShapesOfNodes(SceneChildren(scene), 1)
            good == SelectSeq(shapes, LAMBDA sh : ~Offending(sh) /\ sh.type # "mesh")
            bad == SelectSeq(shapes, Offending)
            calls == SelectSeq(Tests(hist.src),
                               LAMBDA l : l.fn # "rayIntersectTriangle")
            warnings == SelectSeq(hist.log, LAMBDA m : m # "MInv")
        IN /\ Len(calls) = Len(good)
           /\ \A i \in 1..Len(good) : calls[i].fn = RoutineOf(good[i].type)
           /\ Len(warnings) = Len(bad)

\* C15: every primitive call of a compiled text carries a material index i
\* below min(MAX_MATERIALS, materialsArr.length) with materialsArr[i] the
\* shape's material, so that getMaterial(i) is that material once bound.
C15_ValidMaterialIndex ==
    (hist.n >= 1 /\ materialsArr.built) =>
        LET shapes == ShapesOfNodes(SceneChildren(scene), 1)
            good == SelectSeq(shapes, LAMBDA sh : ~Offending(sh) /\ sh.type # "mesh")
            meshMaterials == {shapes[i].material : i \in {j \in 1..Len(shapes) :
                                ~Offending(shapes[j]) /\ shapes[j].type = "mesh"}}
            calls == SelectSeq(Tests(hist.src),
                               LAMBDA l : l.fn # "rayIntersectTriangle")
            tris == SelectSeq(Tests(hist.src),
                              LAMBDA l : l.fn = "rayIntersectTriangle")
            bound == BindMaterials(ZeroUniforms, materialsArr.arr)
            Valid(i) == /\ i \in 0..(Min(MAX_MATERIALS, Len(materialsArr.arr)) - 1)
                        /\ getMaterial(bound, i) = materialsArr.arr[i + 1]
        IN /\ \A k \in 1..Len(calls) :
                 /\ Valid(calls[k].mIdx)
                 /\ materialsArr.arr[calls[k].mIdx + 1] = good[k].material
           /\ \A k \in 1..Len(tris) :
                 /\ Valid(tris[k].mIdx)
                 /\ materialsArr.arr[tris[k].mIdx + 1] \in meshMaterials

\* the product of the local transforms on a path, root first, from the identity
PathProduct(path) ==
    LET P[i \in 0..Len(path)] ==
          IF i = 0 THEN IdentityT ELSE Mat4Mul(P[i - 1], path[i])
    IN P[Len(path)]

\* how many primitive tests a shape contributes
TestsOfShape(shape) ==
    IF Offending(shape) THEN 0
    ELSE IF shape.type # "mesh" THEN 1
    ELSE Len(FansOfFaces(MeshFaces(shape.mesh), 1))

RECURSIVE PathsOfShapes(_, _, _)
PathsOfShapes(shapes, i, path) ==
    IF i > Len(shapes) THEN <<>>
    ELSE [k \in 1..TestsOfShape(shapes[i]) |-> path]
           \o PathsOfShapes(shapes, i + 1, path)

\* for every emitted test in traversal order, the local transforms of the
\* nodes from the root down to the node that owns the shape
RECURSIVE PathsOfNodes(_, _, _)
PathsOfNodes(nodes, i, path) ==
    IF i > Len(nodes) THEN <<>>
    ELSE LET own == Append(path, nodes[i].transform)
         IN PathsOfShapes(nodes[i].shapes, 1, own)
              \o (IF Has(nodes[i], "children")
                  THEN PathsOfNodes(nodes[i].children, 1, own) ELSE <<>>)
              \o PathsOfNodes(nodes, i + 1, path)

\* the 16 + 9 numbers of MInv and N that end a primitive call
BakedMatrices(l) == SubSeq(l.num, Len(l.num) - 24, Len(l.num))

\* C16: the inverse and the normal matrix baked into every call of a node's
\* shapes are those of the product of the local transforms of the node's
\* ancestors and its own, multiplied root first starting from the identity.
C16_TransformAccumulation ==
    hist.n >= 1 =>
        LET paths == PathsOfNodes(SceneChildren(scene), 1, <<>>)
            calls == Tests(hist.src)
        IN /\ Len(calls) = Len(paths)
           /\ \A k \in 1..Len(calls) :
                 BakedMatrices(calls[k]) =
                    MInvStr(PathProduct(paths[k])) \o NStr(PathProduct(paths[k]))

\* the box of scene 1, a child of a translated node, was compiled with the
\* inverse of "translate by 1, then scale by 2 and translate by 3"
C16_Witness ==
    /\ hist.n >= 1
    /\ scene = 1
    /\ \E k \in 1..Len(hist.src) :
          /\ hist.src[k].fn = "rayIntersectBox"
          /\ BakedMatrices(hist.src[k]) =
                MInvStr([s |-> 2, d |-> 4]) \o NStr([s |-> 2, d |-> 4])

(***************************************************************************)
(* Properties of the shadow factor.                                        *)
(***************************************************************************)

\* the number of unoccluded samples of a softShadow call
Unoccluded(samples) == Cardinality({i \in 1..Len(samples) : samples[i] = 1})

\* C17: softShadow returns counter / (SOFT_NUMBER + 1), counter being the
\* number of unoccluded samples among the unjittered one and the SOFT_NUMBER
\* jittered ones: 1 exactly when all are unoccluded, 0 exactly when all are
\* occluded, strictly between otherwise.
C17_ShadowFactorBounds ==
    shadow.pc = "done" =>
        LET lit == Unoccluded(shadow.samples)
            v == shadow.value
        IN /\ Len(shadow.samples) = SOFT_NUMBER + 1
           /\ shadow.counter = lit
           /\ v[2] > 0
           /\ v[1] * (SOFT_NUMBER + 1) = lit * v[2]
           /\ (v = <<1, 1>>) <=> (lit = SOFT_NUMBER + 1)
           /\ (v = <<0, 1>>) <=> (lit = 0)
           /\ (0 < lit /\ lit < SOFT_NUMBER + 1) => (v[1] > 0 /\ v[1] < v[2])

\* a call whose unjittered sample was occluded and whose jittered samples
\* were all unoccluded has returned
C17_Witness ==
    /\ shadow.pc = "done"
    /\ shadow.samples[1] = 0
    /\ Unoccluded(shadow.samples) = SOFT_NUMBER
    /\ shadow.value = <<10, 11>>

\* C25: a shadow sample counts as occluded exactly when the nearest scene
\* intersection of the ray from the epsilon-offset hit point with direction
\* (light position - hit point) has t < 1, and as unoccluded when t >= 1 or
\* there is no hit (INF).  The light of a jittered sample is the jittered one.
C25_OccludedIffBeforeLight ==
    shadow.pc # "start" =>
        LET occluded == IF shadow.pc = "tested" THEN shadow.inShadow
                        ELSE shadow.samples[Len(shadow.samples)] = 0
            before == ~IsINF(shadow.t) /\ shadow.t[1] < shadow.t[2]
        IN /\ occluded <=> before
           /\ shadow.ray.p0.from = shadow.p
           /\ shadow.ray.p0.along = shadow.ray.v
           /\ \E j \in Jitters \cup {Zero3} :
                 /\ shadow.ray.v = VSub(VAdd(shadow.light, j), shadow.p)
                 /\ (shadow.pc = "tested" \/ Len(shadow.samples) = 1) => j = Zero3

\* a jittered sample whose ray came back with the light's own distance,
\* t = 1, counted as unoccluded
C25_Witness ==
    /\ shadow.pc = "loop"
    /\ Len(shadow.samples) = 2
    /\ shadow.t = <<1, 1>>
    /\ shadow.samples[2] = 1
    /\ shadow.ray.v = <<0, 1, 2>>

====
